---------------------------- MODULE Spec2Model ----------------------------
(***************************************************************************)
(* A model of src/src/wlt_toolkit.c (kmscon's Wayland toolkit helper):     *)
(* the display connection and its readiness state machine, windows with    *)
(* their shared-memory buffer, the frame scheduler, the deferred close and *)
(* the pointer and keyboard handlers.                                      *)
(*                                                                         *)
(* Every handler of the C file is one action.  The handlers that libwayland*)
(* invokes (dp_global, seat_capabilities, frame_callback, ...) run only    *)
(* inside wl_display_iterate, which the file calls from dp_event alone,    *)
(* and the event loop calls dp_event only while dp_fd is registered; so    *)
(* these actions carry the guard Dispatching.                              *)
(*                                                                         *)
(* unsigned int / uint32_t values are kept at their width of 32 bits.  TLC *)
(* integers are 32-bit signed, so a number is a little-endian sequence of  *)
(* 16-bit limbs: <<lo, hi>> is a 32-bit value, four limbs a 64-bit one.    *)
(***************************************************************************)
EXTENDS Integers, Sequences, FiniteSets, TLC

VARIABLES
    disp,        \* struct wlt_display
    heard,       \* per listener: the notifications its callback received
    hook_calls,  \* the notifications handed to shl_hook_call(disp->listeners)
    wnd,         \* the struct wlt_window objects, by slot
    last         \* the last handler run: its name, argument, result and the
                 \* calls it made (callbacks, allocations, protocol requests)

vars == <<disp, heard, hook_calls, wnd, last>>

-----------------------------------------------------------------------------
(* Bounds of the model *)

MaxGlobalId == 2      \* global names the server advertises: 1..MaxGlobalId
MaxListeners == 1     \* callbacks the application may register: 1..MaxListeners
MaxWindows == 1       \* windows ever created on the connection
MaxWidgets == 2       \* widgets per window
MaxFrameWidgets == 1  \* widgets per window while its frames are followed
MaxDim == 2           \* the small widths and heights are 0..MaxDim
MaxWndRef == 2        \* references the application holds on a window
MaxSerial == 2        \* serials the server sends with its input events
MaxCloseRegs == 2     \* close_window registrations pending at once

-----------------------------------------------------------------------------
(* 32-bit and 64-bit unsigned arithmetic on limb sequences *)

Limb == 2^16

\* a natural below 2^31 as a 32-bit value
U32(n) == <<n % Limb, n \div Limb>>

\* zero-extension (or truncation) to n limbs
Pad(a, n) == [i \in 1..n |-> IF i <= Len(a) THEN a[i] ELSE 0]

IsZero(a) == \A i \in 1..Len(a) : a[i] = 0

RECURSIVE AddC(_, _, _, _)
AddC(a, b, i, c) ==
    IF i > Len(a) THEN <<>>
    ELSE LET s == a[i] + b[i] + c
         IN  <<s % Limb>> \o AddC(a, b, i + 1, s \div Limb)

\* a + b modulo 2^(16 n)
Add(a, b, n) == AddC(Pad(a, n), Pad(b, n), 1, 0)

RECURSIVE SubC(_, _, _, _)
SubC(a, b, i, c) ==
    IF i > Len(a) THEN <<>>
    ELSE LET s == a[i] - b[i] - c
         IN  <<(s + Limb) % Limb>> \o SubC(a, b, i + 1, IF s < 0 THEN 1 ELSE 0)

\* a - b modulo 2^(16 n)
Sub(a, b, n) == SubC(Pad(a, n), Pad(b, n), 1, 0)

RECURSIVE LtC(_, _, _)
LtC(a, b, i) ==
    IF i = 0 THEN FALSE
    ELSE IF a[i] # b[i] THEN a[i] < b[i]
    ELSE LtC(a, b, i - 1)

\* a < b, as naturals
Lt(a, b) ==
    IF Len(a) = 2 /\ Len(b) = 2
    THEN a[2] < b[2] \/ (a[2] = b[2] /\ a[1] < b[1])
    ELSE LET n == IF Len(a) > Len(b) THEN Len(a) ELSE Len(b)
         IN  LtC(Pad(a, n), Pad(b, n), n)

Le(a, b) == ~Lt(b, a)

\* equality as naturals, whatever the widths
Eq(a, b) == ~Lt(a, b) /\ ~Lt(b, a)

\* the exact product of two limbs, as <<lo, hi>>
Mul16(x, y) ==
    <<((x % 256) * y + (((x \div 256) * y) % 256) * 256) % Limb,
      (((x \div 256) * y) \div 256)
        + (((x % 256) * y + (((x \div 256) * y) % 256) * 256) \div Limb)>>

RECURSIVE MulLimbC(_, _, _, _)
MulLimbC(x, b, j, c) ==
    IF j > Len(b) THEN <<>>
    ELSE LET p == Mul16(x, b[j])
             s == p[1] + c
         IN  <<s % Limb>> \o MulLimbC(x, b, j + 1, p[2] + (s \div Limb))

RECURSIVE MulC(_, _, _, _)
MulC(a, b, i, n) ==
    IF i > n THEN Pad(<<>>, n)
    ELSE Add(Pad([k \in 1..(i - 1) |-> 0] \o MulLimbC(a[i], b, 1, 0), n),
             MulC(a, b, i + 1, n), n)

\* a * b modulo 2^(16 n)
Mul(a, b, n) == MulC(Pad(a, n), Pad(b, n), 1, n)

\* C's unsigned int operators: the two limbs of the result modulo 2^32
UAdd(a, b) ==
    <<(a[1] + b[1]) % Limb, (a[2] + b[2] + ((a[1] + b[1]) \div Limb)) % Limb>>

USub(a, b) ==
    <<(a[1] - b[1] + Limb) % Limb,
      (a[2] - b[2] - (IF a[1] < b[1] THEN 1 ELSE 0) + Limb) % Limb>>

UMul(a, b) ==
    <<Mul16(a[1], b[1])[1],
      (Mul16(a[1], b[1])[2] + Mul16(a[1], b[2])[1] + Mul16(a[2], b[1])[1])
        % Limb>>

\* the same on the naturals: no operand here exceeds 32 bits, so 64 are exact
XAdd(a, b) == Add(a, b, 4)
XMul(a, b) == Mul(a, b, 4)

-----------------------------------------------------------------------------
(* The display connection *)

STATE_INIT == 0
STATE_RUNNING == 1
STATE_HUP == 2

NULL == 0

Listeners == 1..MaxListeners
GlobalIds == 1..MaxGlobalId

Interfaces ==
    {"wl_display", "wl_compositor", "wl_seat", "wl_shell", "wl_shm", "wl_output"}

\* the element of a singleton: Only({F(x) : x \in {v}}) is F(v), with v
\* evaluated once
Only(S) == CHOOSE y \in S : TRUE

\* one entry of last.log
Ev(name, args) == [e |-> name, a |-> args]

Did(op, arg, ret, log) ==
    [op |-> op, arg |-> arg, wnd |-> 0, ret |-> ret, log |-> log]

\* the same for a handler that is given window i
DidW(op, i, ret, log) ==
    [op |-> op, arg |-> "", wnd |-> i, ret |-> ret, log |-> log]

Count(s, x) == Cardinality({i \in 1..Len(s) : s[i] = x})

\* shl_hook_call(disp->listeners, disp, ev)
Broadcast(h, ls, ev) ==
    [l \in Listeners |-> IF l \in ls THEN Append(h[l], ev) ELSE h[l]]

\* wlt_display_new
InitDisplay ==
    [ref |-> 1, state |-> STATE_INIT, dp_fd |-> TRUE, listeners |-> {},
     w_comp |-> NULL, w_seat |-> NULL, w_shell |-> NULL, w_shm |-> NULL,
     w_pointer |-> NULL, w_keyboard |-> NULL,
     w_cursor_surface |-> NULL, window_list |-> <<>>,
     last_serial |-> 0, pointer_enter_serial |-> 0, pointer_focus |-> NULL,
     xkb_keymap |-> NULL, xkb_state |-> NULL, xkb_mods |-> {},
     keyboard_focus |-> NULL, cursor_serial |-> 0, current_cursor |-> 0]

\* the events of wl_display_iterate reach the listeners only through dp_event
Dispatching == disp.dp_fd

\* the readiness test without its last conjunct
AllBound_NoKeyboard(d) ==
    /\ d.w_comp # NULL
    /\ d.w_seat # NULL
    /\ d.w_shell # NULL
    /\ d.w_shm # NULL
    /\ d.w_pointer # NULL

AllBound(d) ==
    /\ d.w_comp # NULL
    /\ d.w_seat # NULL
    /\ d.w_shell # NULL
    /\ d.w_shm # NULL
    /\ d.w_pointer # NULL
    /\ d.w_keyboard # NULL

\* check_ready without its test of disp->state
CheckReady_NoStateTest(d, hc, h) ==
    IF AllBound(d)
    THEN [d |-> [d EXCEPT !.w_cursor_surface = 1, !.state = STATE_RUNNING],
          hc |-> Append(hc, "READY"),
          h |-> Broadcast(h, d.listeners, "READY"),
          log |-> <<Ev("check_ready", <<>>), Ev("load_cursors", <<>>),
                    Ev("hook_call", <<>>)>>]
    ELSE [d |-> d, hc |-> hc, h |-> h, log |-> <<Ev("check_ready", <<>>)>>]

\* check_ready: the display, the hook calls and the listeners' view after it
CheckReady(d, hc, h) ==
    IF d.state > STATE_INIT
    THEN [d |-> d, hc |-> hc, h |-> h, log |-> <<Ev("check_ready", <<>>)>>]
    ELSE IF AllBound(d)
    THEN [d |-> [d EXCEPT !.w_cursor_surface = 1, !.state = STATE_RUNNING],
          hc |-> Append(hc, "READY"),
          h |-> Broadcast(h, d.listeners, "READY"),
          log |-> <<Ev("check_ready", <<>>), Ev("load_cursors", <<>>),
                    Ev("hook_call", <<>>)>>]
    ELSE [d |-> d, hc |-> hc, h |-> h, log |-> <<Ev("check_ready", <<>>)>>]

Bound(d, iface) ==
    CASE iface = "wl_compositor" -> d.w_comp
      [] iface = "wl_seat" -> d.w_seat
      [] iface = "wl_shell" -> d.w_shell
      [] iface = "wl_shm" -> d.w_shm
      [] OTHER -> NULL

Bind(d, iface, obj) ==
    CASE iface = "wl_compositor" -> [d EXCEPT !.w_comp = obj]
      [] iface = "wl_seat" -> [d EXCEPT !.w_seat = obj]
      [] iface = "wl_shell" -> [d EXCEPT !.w_shell = obj]
      [] iface = "wl_shm" -> [d EXCEPT !.w_shm = obj]
      [] OTHER -> d

Recognized == {"wl_compositor", "wl_seat", "wl_shell", "wl_shm"}

\* dp_global without the "advertised twice" tests
DpGlobal_Rebind(iface, id, bind_ok) ==
    /\ UNCHANGED wnd
    /\ Dispatching
    /\ IF iface \notin Recognized
       THEN /\ UNCHANGED <<disp, heard, hook_calls>>
            /\ last' = Did("dp_global", iface, "void", <<Ev("ignored", <<>>)>>)
       ELSE IF ~bind_ok
       THEN /\ UNCHANGED <<disp, heard, hook_calls>>
            /\ last' = Did("dp_global", iface, "void", <<Ev("cannot bind", <<>>)>>)
       ELSE LET r == CheckReady(Bind(disp, iface, id), hook_calls, heard)
            IN  /\ disp' = r.d
                /\ hook_calls' = r.hc
                /\ heard' = r.h
                /\ last' = Did("dp_global", iface, "void", r.log)

\* dp_global: the server advertises global `id` of interface `iface`;
\* bind_ok is whether wl_display_bind returns an object
DpGlobal(iface, id, bind_ok) ==
    /\ UNCHANGED wnd
    /\ Dispatching
    /\ IF iface \notin Recognized
       THEN /\ UNCHANGED <<disp, heard, hook_calls>>
            /\ last' = Did("dp_global", iface, "void", <<Ev("ignored", <<>>)>>)
       ELSE IF Bound(disp, iface) # NULL
       THEN /\ UNCHANGED <<disp, heard, hook_calls>>
            /\ last' = Did("dp_global", iface, "void", <<Ev("advertised twice", <<>>)>>)
       ELSE IF ~bind_ok
       THEN /\ UNCHANGED <<disp, heard, hook_calls>>
            /\ last' = Did("dp_global", iface, "void", <<Ev("cannot bind", <<>>)>>)
       ELSE LET r == CheckReady(Bind(disp, iface, id), hook_calls, heard)
            IN  /\ disp' = r.d
                /\ hook_calls' = r.hc
                /\ heard' = r.h
                /\ last' = Did("dp_global", iface, "void", r.log)

\* seat_capabilities; the seat listener is added when the seat is bound
SeatCapabilities(pointer, keyboard) ==
    /\ UNCHANGED wnd
    /\ Dispatching
    /\ disp.w_seat # NULL
    /\ LET d1 == IF pointer /\ disp.w_pointer = NULL
                 THEN [disp EXCEPT !.w_pointer = 1] ELSE disp
           d2 == IF keyboard /\ d1.w_keyboard = NULL
                 THEN [d1 EXCEPT !.w_keyboard = 1] ELSE d1
           r == CheckReady(d2, hook_calls, heard)
       IN  /\ disp' = r.d
           /\ hook_calls' = r.hc
           /\ heard' = r.h
           /\ last' = Did("seat_capabilities", "", "void", r.log)

\* dp_event without ev_eloop_rm_fd
DpEvent_KeepFd(hup, readable, writeable) ==
    /\ UNCHANGED wnd
    /\ disp.dp_fd
    /\ hup \/ readable \/ writeable
    /\ IF hup
       THEN /\ disp' = [disp EXCEPT !.state = STATE_HUP]
            /\ hook_calls' = Append(hook_calls, "HUP")
            /\ heard' = Broadcast(heard, disp.listeners, "HUP")
            /\ last' = Did("dp_event", "hup", "void", <<Ev("hook_call", <<>>)>>)
       ELSE /\ UNCHANGED <<disp, heard, hook_calls>>
            /\ last' = Did("dp_event", "io", "void", <<Ev("wl_display_iterate", <<>>)>>)

\* dp_event: the event loop reports `mask` on the transport's fd
DpEvent(hup, readable, writeable) ==
    /\ UNCHANGED wnd
    /\ disp.dp_fd
    /\ hup \/ readable \/ writeable
    /\ IF hup
       THEN /\ disp' = [disp EXCEPT !.state = STATE_HUP, !.dp_fd = FALSE]
            /\ hook_calls' = Append(hook_calls, "HUP")
            /\ heard' = Broadcast(heard, disp.listeners, "HUP")
            /\ last' = Did("dp_event", "hup", "void",
                           <<Ev("hook_call", <<>>), Ev("rm_fd", <<>>)>>)
       ELSE /\ UNCHANGED <<disp, heard, hook_calls>>
            /\ last' = Did("dp_event", "io", "void", <<Ev("wl_display_iterate", <<>>)>>)

\* wlt_display_register_cb, for a callback not registered yet
RegisterCb(l) ==
    /\ UNCHANGED wnd
    /\ l \notin disp.listeners
    /\ disp' = [disp EXCEPT !.listeners = @ \cup {l}]
    /\ UNCHANGED <<heard, hook_calls>>
    /\ last' = Did("register_cb", "", "0", <<>>)

\* wlt_display_unregister_cb
UnregisterCb(l) ==
    /\ UNCHANGED wnd
    /\ l \in disp.listeners
    /\ disp' = [disp EXCEPT !.listeners = @ \ {l}]
    /\ UNCHANGED <<heard, hook_calls>>
    /\ last' = Did("unregister_cb", "", "void", <<>>)

-----------------------------------------------------------------------------
(* Windows: the shared-memory buffer and the frame scheduler *)

Windows == 1..MaxWindows

\* 2^30 + 1: a width whose byte count does not fit in an unsigned int
BigDim == <<1, 16384>>

\* the heights and the widths the application passes
Heights == {U32(n) : n \in 0..MaxDim}

Widths == Heights \cup {BigDim}

\* the sizes an application asks for: the small ones, a width of zero and a
\* height of zero
SmallSizes ==
    {<<U32(w), U32(h)>> : w \in 1..MaxDim, h \in 1..MaxDim}
      \cup {<<U32(0), U32(1)>>, <<U32(1), U32(0)>>}

\* the int32_t sizes of a shell configure event
ConfigSizes == {<<-1, 0>>, <<0, MaxDim>>, <<MaxDim, -1>>, <<1, 1>>}

\* resize_edges: the edges of enum wl_shell_surface_resize in the event
EdgeSets == {{}, {"top", "left"}}

NoPool == [id |-> 0, size |-> U32(0)]

NoBuffer ==
    [width |-> U32(0), height |-> U32(0), stride |-> U32(0),
     data |-> [pool |-> 0, off |-> Pad(<<>>, 4)]]

\* a zeroed struct wlt_window.  st is "none" for a slot never allocated,
\* "live" from create_window to the last unref, "freed" afterwards.
\* absorbed is a history flag: a size request has replaced a pending one since
\* the last do_frame.
\* idle_regs and close_regs count the (idle_frame, wnd) and (close_window, wnd)
\* entries of the event loop's idle hook, frame_cbs the wl_callback objects of
\* the window that the server has not answered and the client not destroyed.
NoWindow ==
    [st |-> "none", ref |-> 0, close_cb |-> FALSE, close_pending |-> FALSE,
     pool |-> NoPool, w_buffer |-> NULL, buffer_attached |-> FALSE,
     skip_damage |-> FALSE, need_resize |-> FALSE, need_redraw |-> FALSE,
     need_frame |-> FALSE, idle_pending |-> FALSE,
     new_width |-> U32(0), new_height |-> U32(0), resize_edges |-> {},
     buffer |-> NoBuffer, w_frame |-> FALSE, widgets |-> <<>>,
     idle_regs |-> 0, close_regs |-> 0, frame_cbs |-> 0, absorbed |-> FALSE]

\* a widget after wlt_window_create_widget and the wlt_widget_set_*_cb calls
\* of its creator: a "draw" widget redraws, a "grid" widget also rounds the
\* size of its window up to whole cells of two pixels, a "cells" widget rounds
\* it down to whole cells
WidgetKinds == {"draw", "grid"}

\* the widgets of the windows whose input is followed: a "label" sets no
\* input callback
InputKinds == {"draw", "label"}

Widget(kind) ==
    [kind |-> kind, id |-> 0, redraw_cb |-> TRUE, resize_cb |-> TRUE,
     destroy_cb |-> TRUE, prepare_resize_cb |-> (kind \in {"grid", "cells"}),
     pointer_enter_cb |-> (kind # "label"),
     pointer_leave_cb |-> (kind # "label"),
     pointer_motion_cb |-> (kind # "label"),
     pointer_button_cb |-> (kind # "label"),
     keyboard_cb |-> (kind # "label")]

\* ev_eloop_register_idle_cb / ev_eloop_unregister_idle_cb: the idle hook
\* keeps one entry per registration and an unregistration removes one entry
\* with the same callback and data, if there is one
Register(n) == n + 1

Unregister(n) == IF n > 0 THEN n - 1 ELSE 0

\* a walk of the widget list from its tail to its head
WidgetCalls_Reversed(ws, slot, name, args) ==
    LET sel == SelectSeq([i \in 1..Len(ws) |-> ws[Len(ws) + 1 - i]],
                         LAMBDA x : x[slot])
    IN  [k \in 1..Len(sel) |-> Ev(name, <<U32(sel[k].id)>> \o args)]

\* the callbacks `name` of the widgets that have set slot `slot`, in list
\* order, each with the widget it is called for
WidgetCalls(ws, slot, name, args) ==
    LET sel == SelectSeq(ws, LAMBDA x : x[slot])
    IN  [k \in 1..Len(sel) |-> Ev(name, <<U32(sel[k].id)>> \o args)]

\* schedule_frame
ScheduleFrame(w) ==
    IF w.w_frame THEN w
    ELSE IF ~w.need_frame /\ ~w.idle_pending
    THEN [w EXCEPT !.idle_pending = TRUE, !.idle_regs = Register(@),
                   !.w_frame = TRUE, !.frame_cbs = @ + 1]
    ELSE w

\* wlt_window_schedule_redraw
ScheduleRedraw(w) == ScheduleFrame([w EXCEPT !.need_redraw = TRUE])

\* wlt_window_set_size keeping the target of a resize that is pending
SetSize_KeepFirst(w, width, height) ==
    IF IsZero(width) \/ IsZero(height)
    THEN [w |-> w, ret |-> "-EINVAL"]
    ELSE IF w.need_resize
    THEN [w |-> ScheduleFrame(w), ret |-> "0"]
    ELSE [w |-> ScheduleFrame([w EXCEPT !.new_width = width,
                                        !.new_height = height,
                                        !.need_resize = TRUE]),
          ret |-> "0"]

\* wlt_window_set_size
SetSize(w, width, height) ==
    IF IsZero(width) \/ IsZero(height)
    THEN [w |-> w, ret |-> "-EINVAL"]
    ELSE [w |-> ScheduleFrame([w EXCEPT !.new_width = width,
                                        !.new_height = height,
                                        !.need_resize = TRUE]),
          ret |-> "0"]

\* the rectangle a widget damages from its redraw_cb
WidgetRect == <<U32(1), U32(1), U32(1), U32(1)>>

\* wlt_window_damage: the wl_surface_damage it makes
Damage(w, rect) == IF w.skip_damage THEN <<>> ELSE <<Ev("damage", rect)>>

\* wlt_window_do_redraw that does not set skip_damage
SkipDamage_Not(w) == w

\* wnd->skip_damage = true
SkipDamage(w) == [w EXCEPT !.skip_damage = TRUE]

\* the loop over redraw_cb: each widget draws and calls wlt_window_damage
RECURSIVE RedrawCalls(_, _, _)
RedrawCalls(w, ws, i) ==
    IF i > Len(ws) THEN <<>>
    ELSE IF ws[i].redraw_cb
    THEN <<Ev("redraw_cb", <<U32(ws[i].id)>>),
           Ev("wlt_window_damage", <<U32(ws[i].id)>>)>>
           \o Damage(w, WidgetRect) \o RedrawCalls(w, ws, i + 1)
    ELSE RedrawCalls(w, ws, i + 1)

\* wlt_window_do_redraw; `again` is whether the redraw callbacks call
\* wlt_window_schedule_redraw, which the log shows after them
DoRedraw(w, oldw, oldh, again) ==
    LET ws == w.widgets
        w1 == IF again /\ (\E i \in 1..Len(ws) : ws[i].redraw_cb)
              THEN ScheduleRedraw(w) ELSE w
        attach == ~w1.buffer_attached
        x == IF "left" \in w1.resize_edges
             THEN USub(oldw, w1.buffer.width) ELSE U32(0)
        y == IF "top" \in w1.resize_edges
             THEN USub(oldh, w1.buffer.height) ELSE U32(0)
        w2 == IF attach
              THEN [w1 EXCEPT !.buffer_attached = TRUE, !.resize_edges = {},
                              !.skip_damage = FALSE]
              ELSE [w1 EXCEPT !.skip_damage = FALSE]
    IN  [w |-> w2,
         log |-> WidgetCalls(ws, "resize_cb", "resize_cb",
                             <<U32(0), U32(0), w.buffer.width, w.buffer.height>>)
                 \o <<Ev("memset", <<UMul(w.buffer.stride, w.buffer.height)>>)>>
                 \o RedrawCalls(SkipDamage(w), ws, 1)
                 \o (IF again /\ (\E i \in 1..Len(ws) : ws[i].redraw_cb)
                     THEN <<Ev("schedule_redraw", <<>>)>> ELSE <<>>)
                 \o (IF attach THEN <<Ev("attach", <<x, y>>)>> ELSE <<>>)
                 \o <<Ev("damage", <<U32(0), U32(0), w.buffer.width,
                                    w.buffer.height>>)>>]

\* the prepare_resize_cb of a "grid" widget
Snap(v) == IF v[1] % 2 = 1 THEN UAdd(v, U32(1)) ELSE v

\* the prepare_resize_cb of a "cells" widget
Trunc(v) == IF v[1] % 2 = 1 THEN USub(v, U32(1)) ELSE v

\* what the prepare_resize_cb of a widget writes to *width or *height
Adjust(kind, v) == IF kind = "cells" THEN Trunc(v) ELSE Snap(v)

\* the loop over prepare_resize_cb: the size the widgets leave
RECURSIVE PrepareResize(_, _, _, _)
PrepareResize(ws, i, width, height) ==
    IF i > Len(ws) THEN <<width, height>>
    ELSE IF ws[i].prepare_resize_cb
    THEN PrepareResize(ws, i + 1, Adjust(ws[i].kind, width),
                       Adjust(ws[i].kind, height))
    ELSE PrepareResize(ws, i + 1, width, height)

\* wlt_pool_new naming the pool that the window holds
FreshPool_Held(w, size) == [id |-> IF w.pool.id = 0 THEN 1 ELSE w.pool.id,
                            size |-> size]

\* wlt_pool_new names a pool that the window does not hold
FreshPool(w, size) == [id |-> IF w.pool.id = 1 THEN 2 ELSE 1, size |-> size]

\* the error path of resize_window for a buffer in a new pool, without the
\* assignment of old_pool
FailBuffer_KeepPool(w, fresh) == [w EXCEPT !.pool = fresh]

\* the error path of resize_window for a buffer in a new pool: w_buffer and
\* pool are the old ones again
FailBuffer(w, fresh) == [w EXCEPT !.w_buffer = w.w_buffer, !.pool = w.pool]

\* resize_window's test of the adjusted size, never true
SameSize_Never(w, width, height) == FALSE

\* resize_window's test of the adjusted size against the committed buffer
SameSize(w, width, height) ==
    width = w.buffer.width /\ height = w.buffer.height

\* resize_window.  fail: "pool" when wlt_pool_new fails, "buffer" when
\* wl_shm_pool_create_buffer returns NULL, else "none".  mmap rejects a
\* length of 0, so wlt_pool_new fails for a size of 0.
ResizeWindow(w, width0, height0, fail, again) ==
    IF IsZero(width0) \/ IsZero(height0)
    THEN [w |-> w, ret |-> "-EINVAL", log |-> <<>>]
    ELSE
    LET ws == w.widgets
        sz == PrepareResize(ws, 1, width0, height0)
        width == sz[1]
        height == sz[2]
        enter == <<Ev("resize_window", <<width0, height0>>)>>
                 \o WidgetCalls(ws, "prepare_resize_cb", "prepare_resize_cb", <<>>)
        nsize == UMul(UMul(width, height), U32(4))
        reuse == w.pool.id # 0 /\ Le(nsize, w.pool.size)
        fresh == FreshPool(w, nsize)
        pool == IF reuse THEN w.pool ELSE fresh
        w1 == [w EXCEPT !.pool = pool,
                        !.w_buffer = 1,
                        !.buffer = [width |-> width, height |-> height,
                                    stride |-> UMul(width, U32(4)),
                                    data |-> [pool |-> pool.id,
                                              off |-> Pad(<<>>, 4)]],
                        !.buffer_attached = FALSE]
        r == DoRedraw(w1, w.buffer.width, w.buffer.height, again)
    IN  IF SameSize(w, width, height)
        THEN [w |-> w, ret |-> "0", log |-> enter]
        ELSE IF reuse /\ fail = "buffer"
        THEN [w |-> w, ret |-> "-ENOMEM",
              log |-> enter \o <<Ev("cannot create buffer", <<>>)>>]
        ELSE IF ~reuse /\ (fail = "pool" \/ IsZero(nsize))
        THEN [w |-> w, ret |-> "-EFAULT",
              log |-> enter \o <<Ev("cannot create pool", <<>>)>>]
        ELSE IF ~reuse /\ fail = "buffer"
        THEN [w |-> FailBuffer(w, fresh), ret |-> "-ENOMEM",
              log |-> enter
                      \o <<Ev("pool_new", <<U32(fresh.id), nsize>>),
                           Ev("cannot create buffer", <<>>),
                           Ev("pool_free", <<U32(fresh.id)>>)>>]
        ELSE [w |-> r.w, ret |-> "0",
              log |-> enter
                      \o (IF reuse THEN <<>>
                          ELSE <<Ev("pool_new", <<U32(fresh.id), nsize>>)>>)
                      \o <<Ev("create_buffer",
                              <<width, height, UMul(width, U32(4))>>)>>
                      \o r.log
                      \o (IF w.w_buffer # NULL
                          THEN <<Ev("buffer_destroy", <<>>)>> ELSE <<>>)
                      \o (IF ~reuse /\ w.pool.id # 0
                          THEN <<Ev("pool_free", <<U32(w.pool.id)>>)>>
                          ELSE <<>>)]

\* do_frame: rs is what its first `if` leaves (the resize), rd what its second
\* leaves (the redraw, for a need_redraw that is set after the first)
DoFrame(w, fail, again) ==
    Only({Only({[w |-> rd.w,
                 log |-> <<Ev("do_frame", <<>>)>> \o rs.log
                         \o (IF rs.w.need_redraw
                             THEN <<Ev("do_redraw", <<>>)>> ELSE <<>>)
                         \o rd.log] :
                rd \in {IF rs.w.need_redraw
                        THEN DoRedraw([rs.w EXCEPT !.need_redraw = FALSE],
                                      rs.w.buffer.width, rs.w.buffer.height,
                                      again)
                        ELSE [w |-> rs.w, log |-> <<>>]}}) :
          rs \in {IF w.need_resize
                  THEN ResizeWindow([w EXCEPT !.idle_pending = FALSE,
                                              !.idle_regs = Unregister(@),
                                              !.need_resize = FALSE,
                                              !.need_redraw = FALSE],
                                    w.new_width, w.new_height, fail, again)
                  ELSE [w |-> [w EXCEPT !.idle_pending = FALSE,
                                        !.idle_regs = Unregister(@)],
                        ret |-> "0", log |-> <<>>]}})

Live(i) == wnd[i].st = "live"

DispUnchanged == UNCHANGED <<disp, heard, hook_calls>>

ResizeFailures == {"none", "pool", "buffer"}

CreateFailures == {"none", "malloc", "surface", "shell_surface", "pool", "buffer"}

FreeSlots == {i \in Windows : wnd[i].st = "none"}

\* the end of wlt_display_create_window without wlt_display_ref
LinkWindow_NoRef(d, i) == [d EXCEPT !.window_list = <<i>> \o @]

\* the end of wlt_display_create_window: wlt_display_ref and shl_dlist_link
LinkWindow(d, i) ==
    [d EXCEPT !.ref = @ + 1, !.window_list = <<i>> \o @]

\* a call and its arguments, at the head of last.log
Called(name, args) == <<Ev(name, args)>>

\* wlt_display_create_window; the window takes the lowest slot never used
CreateWindow(width, height, fail) ==
    /\ UNCHANGED <<heard, hook_calls>>
    /\ LET call == Called("create_window", <<width, height>>)
       IN
       IF IsZero(width) \/ IsZero(height)
       THEN /\ UNCHANGED <<disp, wnd>>
            /\ last' = Did("create_window", "", "-EINVAL", call)
       ELSE IF disp.state # STATE_RUNNING
       THEN /\ UNCHANGED <<disp, wnd>>
            /\ last' = Did("create_window", "", "-EBUSY", call)
       ELSE IF fail = "malloc"
       THEN /\ UNCHANGED <<disp, wnd>>
            /\ last' = Did("create_window", "", "-ENOMEM", call)
       ELSE IF fail \in {"surface", "shell_surface"}
       THEN /\ UNCHANGED <<disp, wnd>>
            /\ last' = Did("create_window", "", "-EFAULT", call)
       ELSE /\ FreeSlots # {}
            /\ LET i == CHOOSE k \in FreeSlots : \A j \in FreeSlots : k <= j
                   r == ResizeWindow([NoWindow EXCEPT !.st = "live", !.ref = 1],
                                     width, height, fail, FALSE)
               IN  IF r.ret # "0"
                   THEN /\ UNCHANGED <<disp, wnd>>
                        /\ last' = Did("create_window", "", r.ret, call \o r.log)
                   ELSE /\ wnd' = [wnd EXCEPT ![i] = r.w]
                        /\ disp' = LinkWindow(disp, i)
                        /\ last' = DidW("create_window", i, "0", call \o r.log)

\* the window after a size request, with the history flag
Requested(w, r) ==
    IF r.ret = "0" THEN [r.w EXCEPT !.absorbed = w.absorbed \/ w.need_resize]
    ELSE r.w

\* the history flag at the head of a do_frame's log
Absorbed(w) == IF w.absorbed THEN <<Ev("absorbed", <<>>)>> ELSE <<>>

\* wlt_window_set_size, called by the application
WindowSetSize(i, width, height) ==
    /\ Live(i)
    /\ DispUnchanged
    /\ LET r == SetSize(wnd[i], width, height)
       IN  /\ wnd' = [wnd EXCEPT ![i] = Requested(wnd[i], r)]
           /\ last' = DidW("set_size", i, r.ret,
                           Called("set_size", <<width, height>>))

\* shell_surface_configure
ShellSurfaceConfigure(i, edges, width, height) ==
    /\ Dispatching
    /\ Live(i)
    /\ DispUnchanged
    /\ LET cw == IF width <= 0 THEN 1 ELSE width
           ch == IF height <= 0 THEN 1 ELSE height
           r == SetSize([wnd[i] EXCEPT !.resize_edges = edges], U32(cw), U32(ch))
       IN  /\ wnd' = [wnd EXCEPT ![i] = Requested(wnd[i], r)]
           /\ last' = DidW("shell_surface_configure", i, "void",
                           Called("set_size", <<U32(cw), U32(ch)>>))

\* wlt_window_schedule_redraw, called by the application
WindowScheduleRedraw(i) ==
    /\ Live(i)
    /\ DispUnchanged
    /\ wnd' = [wnd EXCEPT ![i] = ScheduleRedraw(@)]
    /\ last' = DidW("schedule_redraw", i, "void", <<>>)

\* wlt_window_create_widget, with the callbacks its creator sets
CreateWidget(i, kind) ==
    /\ Live(i)
    /\ Len(wnd[i].widgets) < MaxWidgets
    /\ DispUnchanged
    /\ wnd' = [wnd EXCEPT
                 ![i] = [ScheduleRedraw(@) EXCEPT
                           !.widgets =
                               Append(@, [Widget(kind) EXCEPT
                                            !.id = Len(wnd[i].widgets) + 1])]]
    /\ last' = DidW("create_widget", i, "0", <<>>)

\* idle_frame, called by the event loop for an entry of its idle hook
IdleFrame(i, fail, again) ==
    /\ Live(i)
    /\ wnd[i].idle_regs > 0
    /\ DispUnchanged
    /\ \E r \in {DoFrame([wnd[i] EXCEPT !.need_frame = TRUE,
                                         !.absorbed = FALSE], fail, again)} :
           /\ wnd' = [wnd EXCEPT ![i] = r.w]
           /\ last' = DidW("idle_frame", i, "void", Absorbed(wnd[i]) \o r.log)

\* frame_callback: the server answers the window's wl_callback
FrameCallback(i, fail, again) ==
    /\ Dispatching
    /\ Live(i)
    /\ wnd[i].frame_cbs > 0
    /\ DispUnchanged
    /\ \E r \in {DoFrame([wnd[i] EXCEPT !.frame_cbs = @ - 1,
                                         !.w_frame = FALSE,
                                         !.need_frame = FALSE,
                                         !.absorbed = FALSE], fail, again)} :
           /\ wnd' = [wnd EXCEPT ![i] = r.w]
           /\ last' = DidW("frame_callback", i, "void",
                           Absorbed(wnd[i]) \o r.log)

\* the coordinates and the extents of the struct wlt_rect an application passes
RectPos == {U32(0), U32(1), <<0, 16384>>}

RectLen == {U32(1), U32(MaxDim), <<65535, 65535>>}

\* alloc == NULL
NoRect == <<>>

Rects ==
    {<<x, y, w, h>> : x \in RectPos, y \in RectPos, w \in RectLen, h \in RectLen}
      \cup {NoRect}

\* wlt_window_get_buffer: what it stores in *buf.  data is a pointer of 64
\* bits; the two products are products of unsigned int.
GetBuffer(w, alloc) ==
    LET rbuf == w.buffer
        x == alloc[1]
        y == alloc[2]
        width == alloc[3]
        height == alloc[4]
    IN  IF alloc = NoRect THEN rbuf
        ELSE IF ~Lt(x, rbuf.width) \/ ~Lt(y, rbuf.height) THEN NoBuffer
        ELSE [width |-> IF Lt(rbuf.width, UAdd(x, width))
                        THEN USub(rbuf.width, x) ELSE width,
              height |-> IF Lt(rbuf.height, UAdd(y, height))
                         THEN USub(rbuf.height, y) ELSE height,
              stride |-> rbuf.stride,
              data |-> [pool |-> rbuf.data.pool,
                        off |-> XAdd(XAdd(rbuf.data.off,
                                          Pad(UMul(y, rbuf.stride), 4)),
                                     Pad(UMul(x, U32(4)), 4))]]

\* wlt_window_get_buffer, called by the application or a widget
WindowGetBuffer(i, alloc) ==
    /\ Live(i)
    /\ DispUnchanged
    /\ UNCHANGED wnd
    /\ LET b == GetBuffer(wnd[i], alloc)
       IN  last' = DidW("get_buffer", i, "void",
                        <<Ev("alloc", alloc),
                          Ev("buf", <<b.width, b.height, b.stride,
                                      U32(b.data.pool), b.data.off>>)>>)

\* wlt_window_set_close_cb
WindowSetCloseCb(i) ==
    /\ Live(i)
    /\ ~wnd[i].close_cb
    /\ DispUnchanged
    /\ wnd' = [wnd EXCEPT ![i].close_cb = TRUE]
    /\ last' = DidW("set_close_cb", i, "void", <<>>)

\* wlt_window_close
WindowClose(i) ==
    /\ Live(i)
    /\ wnd[i].close_regs < MaxCloseRegs
    /\ DispUnchanged
    /\ wnd' = [wnd EXCEPT ![i].close_pending = TRUE,
                          ![i].close_regs = Register(@)]
    /\ last' = DidW("close", i, "void", <<Ev("register_idle_cb", <<>>)>>)

\* close_window, called by the event loop for an entry of its idle hook
CloseWindow(i) ==
    /\ Live(i)
    /\ wnd[i].close_regs > 0
    /\ DispUnchanged
    /\ wnd' = [wnd EXCEPT ![i].close_pending = FALSE,
                          ![i].close_regs = Unregister(@)]
    /\ last' = DidW("close_window", i, "void",
                    IF wnd[i].close_cb THEN <<Ev("close_cb", <<>>)>> ELSE <<>>)

\* wlt_window_ref
WindowRef(i) ==
    /\ Live(i)
    /\ wnd[i].ref < MaxWndRef
    /\ DispUnchanged
    /\ wnd' = [wnd EXCEPT ![i].ref = @ + 1]
    /\ last' = DidW("window_ref", i, "void", <<>>)

\* what wlt_window_unref leaves of a window whose last reference it drops:
\* the registrations it did not remove
Destroyed(w) ==
    [NoWindow EXCEPT
       !.st = "freed",
       !.close_regs = IF w.close_pending THEN Unregister(w.close_regs)
                      ELSE w.close_regs,
       !.idle_regs = IF w.idle_pending THEN Unregister(w.idle_regs)
                     ELSE w.idle_regs,
       !.frame_cbs = IF w.w_frame THEN w.frame_cbs - 1 ELSE w.frame_cbs]

\* wlt_window_unref
WindowUnref(i) ==
    /\ Live(i)
    /\ UNCHANGED <<heard, hook_calls>>
    /\ IF wnd[i].ref > 1
       THEN /\ wnd' = [wnd EXCEPT ![i].ref = @ - 1]
            /\ UNCHANGED disp
            /\ last' = DidW("window_unref", i, "void", <<>>)
       ELSE /\ wnd' = [wnd EXCEPT ![i] = Destroyed(@)]
            /\ disp' = [disp EXCEPT
                          !.ref = @ - 1,
                          !.window_list = SelectSeq(@, LAMBDA k : k # i)]
            /\ last' = DidW("window_unref", i, "void",
                            WidgetCalls(wnd[i].widgets, "destroy_cb",
                                        "destroy_cb", <<>>)
                            \o (IF wnd[i].w_buffer # NULL
                                THEN <<Ev("buffer_destroy", <<>>)>> ELSE <<>>)
                            \o (IF wnd[i].pool.id # 0
                                THEN <<Ev("pool_free", <<U32(wnd[i].pool.id)>>)>>
                                ELSE <<>>)
                            \o <<Ev("surface_destroy", <<>>),
                                 Ev("free", <<>>)>>)

-----------------------------------------------------------------------------
(* The input handlers *)

\* the wl_surface a server may name: NULL, the surface of window i (i), and
\* a surface that belongs to no window
Surfaces == 0..(MaxWindows + 1)

Serials == 1..MaxSerial

\* the scan of disp->window_list for wnd->w_surface == w_surface
Lookup(d, surface) ==
    IF \E k \in 1..Len(d.window_list) : d.window_list[k] = surface
    THEN surface ELSE NULL

\* positions in wl_fixed_t: 0 and 1.5 pixels
FixedPos == {0, 384}

\* x >> 8
Shr8(x) == x \div 256

\* pointer_enter that takes the first window of the list for a surface it
\* does not find
PointerEnter_First(d, serial, surface) ==
    IF surface = NULL \/ d.window_list = <<>> THEN d
    ELSE [d EXCEPT !.pointer_enter_serial = serial,
                   !.last_serial = serial,
                   !.pointer_focus = d.window_list[1]]

\* pointer_enter: what it leaves of the connection
PointerEnterDisp(d, serial, surface) ==
    IF surface = NULL \/ Lookup(d, surface) = NULL THEN d
    ELSE [d EXCEPT !.pointer_enter_serial = serial,
                   !.last_serial = serial,
                   !.pointer_focus = Lookup(d, surface)]

\* pointer_enter
PointerEnter(serial, surface, x, y) ==
    /\ Dispatching
    /\ disp.w_pointer # NULL
    /\ UNCHANGED <<heard, hook_calls, wnd>>
    /\ disp' = PointerEnterDisp(disp, serial, surface)
    /\ LET call == Called("pointer_enter", <<U32(serial), U32(surface)>>)
       IN  IF surface = NULL
           THEN last' = Did("pointer_enter", "", "void", call)
           ELSE IF Lookup(disp, surface) = NULL
           THEN last' = Did("pointer_enter", "", "void",
                            call \o <<Ev("unknown surface", <<>>)>>)
           ELSE last' = DidW("pointer_enter", surface, "void",
                             call \o WidgetCalls(wnd[surface].widgets,
                                                 "pointer_enter_cb",
                                                 "pointer_enter_cb",
                                                 <<U32(Shr8(x)), U32(Shr8(y))>>))

\* what the memory of a freed window may hold where its widget list was: an
\* empty list or the widget that was linked there
StaleLists == {<<>>, <<[Widget("draw") EXCEPT !.id = 1]>>}

\* the widget lists a handler may find behind the focus f
Reached(f) == IF wnd[f].st = "live" THEN {wnd[f].widgets} ELSE StaleLists

\* pointer_leave that keeps the focus
PointerLeave_KeepFocus(d, serial) == [d EXCEPT !.last_serial = serial]

\* pointer_leave: what it leaves of the connection
PointerLeaveDisp(d, serial) ==
    [d EXCEPT !.pointer_focus = NULL, !.last_serial = serial]

\* pointer_leave
PointerLeave(serial) ==
    /\ Dispatching
    /\ disp.w_pointer # NULL
    /\ UNCHANGED <<heard, hook_calls, wnd>>
    /\ disp' = PointerLeaveDisp(disp, serial)
    /\ LET call == Called("pointer_leave", <<U32(serial)>>)
       IN  IF disp.pointer_focus = NULL
           THEN last' = Did("pointer_leave", "", "void", call)
           ELSE \E ws \in Reached(disp.pointer_focus) :
                    last' = DidW("pointer_leave", disp.pointer_focus, "void",
                                 call \o WidgetCalls(ws, "pointer_leave_cb",
                                                     "pointer_leave_cb", <<>>))

\* pointer_motion
PointerMotion(x, y) ==
    /\ Dispatching
    /\ disp.w_pointer # NULL
    /\ UNCHANGED <<disp, heard, hook_calls, wnd>>
    /\ LET call == Called("pointer_motion", <<>>)
       IN  IF disp.pointer_focus = NULL
           THEN last' = Did("pointer_motion", "", "void", call)
           ELSE \E ws \in Reached(disp.pointer_focus) :
                    last' = DidW("pointer_motion", disp.pointer_focus, "void",
                                 call \o WidgetCalls(ws, "pointer_motion_cb",
                                                     "pointer_motion_cb",
                                                     <<U32(Shr8(x)),
                                                       U32(Shr8(y))>>))

\* pointer_button
PointerButton(serial, state) ==
    /\ Dispatching
    /\ disp.w_pointer # NULL
    /\ UNCHANGED <<heard, hook_calls, wnd>>
    /\ disp' = [disp EXCEPT !.last_serial = serial]
    /\ LET call == Called("pointer_button", <<U32(serial)>>)
       IN  IF disp.pointer_focus = NULL
           THEN last' = Did("pointer_button", "", "void", call)
           ELSE \E ws \in Reached(disp.pointer_focus) :
                    last' = DidW("pointer_button", disp.pointer_focus, "void",
                                 call \o WidgetCalls(ws, "pointer_button_cb",
                                                     "pointer_button_cb",
                                                     <<U32(state)>>))

\* wlt_window_damage, called by the application between the handlers
WindowDamage(i) ==
    /\ Live(i)
    /\ UNCHANGED <<disp, heard, hook_calls, wnd>>
    /\ last' = DidW("wlt_window_damage", i, "void", Damage(wnd[i], WidgetRect))

\* the cursor roles, numbered in the order of the table of their names
WLT_CURSOR_LEFT_PTR == 10
WLT_CURSOR_IBEAM == 11
WLT_CURSOR_NUM == 12

\* the roles an application asks for: two of the table and one out of range
Cursors == {WLT_CURSOR_LEFT_PTR, WLT_CURSOR_IBEAM, WLT_CURSOR_NUM}

\* what disp->cursors[cursor] holds: no cursor, a cursor whose image has no
\* buffer, or a cursor with an image
CursorImages == {"none", "nobuffer", "image"}

\* wlt_window_set_cursor and set_cursor
WindowSetCursor(i, cursor0, image) ==
    /\ Live(i)
    /\ UNCHANGED <<heard, hook_calls, wnd>>
    /\ LET cursor == IF cursor0 >= WLT_CURSOR_NUM THEN WLT_CURSOR_LEFT_PTR
                     ELSE cursor0
           force == disp.pointer_enter_serial > disp.cursor_serial
           request == Ev("wl_pointer_set_cursor",
                         <<U32(disp.pointer_enter_serial)>>)
       IN  IF ~force /\ cursor = disp.current_cursor
           THEN /\ disp' = disp
                /\ last' = DidW("set_cursor", i, "void", <<>>)
           ELSE /\ disp' = [disp EXCEPT
                               !.current_cursor = cursor,
                               !.cursor_serial = disp.pointer_enter_serial]
                /\ last' = DidW("set_cursor", i, "void",
                       IF image = "none"
                       THEN <<Ev("set", <<U32(cursor)>>), request>>
                       ELSE IF image = "nobuffer"
                       THEN <<Ev("set", <<U32(cursor)>>),
                              Ev("cannot load buffer for cursor image", <<>>)>>
                       ELSE <<Ev("set", <<U32(cursor)>>), request,
                              Ev("attach", <<>>), Ev("damage", <<>>)>>)

\* the modifier bits of the terminal state machine
TSM_SHIFT_MASK == 1
TSM_LOCK_MASK == 2
TSM_CONTROL_MASK == 4
TSM_MOD1_MASK == 8
TSM_MOD4_MASK == 64

\* a | b
RECURSIVE BitOr(_, _)
BitOr(a, b) ==
    IF a = 0 THEN b
    ELSE IF b = 0 THEN a
    ELSE (IF a % 2 = 1 \/ b % 2 = 1 THEN 1 ELSE 0)
           + 2 * BitOr(a \div 2, b \div 2)

\* xkb_state_update_mask: the modifiers that are effective afterwards
UpdateMask(depressed, latched, locked) == depressed \cup latched \cup locked

\* get_effective_modmask without its last test
GetEffectiveModmask_NoLogo(active) ==
    BitOr(BitOr(BitOr(BitOr(0,
        IF "Shift" \in active THEN TSM_SHIFT_MASK ELSE 0),
        IF "Lock" \in active THEN TSM_LOCK_MASK ELSE 0),
        IF "Control" \in active THEN TSM_CONTROL_MASK ELSE 0),
        IF "Mod1" \in active THEN TSM_MOD1_MASK ELSE 0)

\* get_effective_modmask; active is what xkb_state_mod_name_is_active answers
\* with XKB_STATE_EFFECTIVE
GetEffectiveModmask(active) ==
    BitOr(BitOr(BitOr(BitOr(BitOr(0,
        IF "Shift" \in active THEN TSM_SHIFT_MASK ELSE 0),
        IF "Lock" \in active THEN TSM_LOCK_MASK ELSE 0),
        IF "Control" \in active THEN TSM_CONTROL_MASK ELSE 0),
        IF "Mod1" \in active THEN TSM_MOD1_MASK ELSE 0),
        IF "Mod4" \in active THEN TSM_MOD4_MASK ELSE 0)

\* what keyboard_keymap meets: a format that is not XKB_V1, a failing mmap,
\* xkb_map_new_from_string or xkb_state_new, or none of these
KeymapOutcomes == {"format", "mmap", "keymap", "state", "ok"}

\* keyboard_keymap
KeyboardKeymap(outcome) ==
    /\ Dispatching
    /\ disp.w_keyboard # NULL
    /\ UNCHANGED <<heard, hook_calls, wnd>>
    /\ disp' = IF outcome \in {"format", "mmap"} THEN disp
               ELSE IF outcome = "keymap"
               THEN [disp EXCEPT !.xkb_keymap = NULL]
               ELSE IF outcome = "state"
               THEN [disp EXCEPT !.xkb_keymap = NULL, !.xkb_state = NULL,
                                 !.xkb_mods = {}]
               ELSE [disp EXCEPT !.xkb_keymap = 1, !.xkb_state = 1,
                                 !.xkb_mods = {}]
    /\ last' = Did("keyboard_keymap", outcome, "void", <<>>)

\* keyboard_enter
KeyboardEnter(serial, surface) ==
    /\ Dispatching
    /\ disp.w_keyboard # NULL
    /\ UNCHANGED <<heard, hook_calls, wnd>>
    /\ disp' = IF disp.xkb_state = NULL \/ surface = NULL
                  \/ Lookup(disp, surface) = NULL
               THEN [disp EXCEPT !.last_serial = serial]
               ELSE [disp EXCEPT !.last_serial = serial,
                                 !.keyboard_focus = Lookup(disp, surface)]
    /\ last' = Did("keyboard_enter", "", "void",
                   Called("keyboard_enter", <<U32(serial), U32(surface)>>))

\* keyboard_leave
KeyboardLeave(serial) ==
    /\ Dispatching
    /\ disp.w_keyboard # NULL
    /\ UNCHANGED <<heard, hook_calls, wnd>>
    /\ disp' = [disp EXCEPT !.last_serial = serial, !.keyboard_focus = NULL]
    /\ last' = Did("keyboard_leave", "", "void",
                   Called("keyboard_leave", <<U32(serial)>>))

\* keyboard_modifiers
KeyboardModifiers(serial, depressed, latched, locked) ==
    /\ Dispatching
    /\ disp.w_keyboard # NULL
    /\ UNCHANGED <<heard, hook_calls, wnd>>
    /\ disp' = IF disp.xkb_state = NULL
               THEN [disp EXCEPT !.last_serial = serial]
               ELSE [disp EXCEPT !.last_serial = serial,
                                 !.xkb_mods =
                                     UpdateMask(depressed, latched, locked)]
    /\ last' = Did("keyboard_modifiers", "", "void",
                   Called("keyboard_modifiers", <<U32(serial)>>))

XKB_KEY_NoSymbol == 0

\* what xkb_key_get_syms answers for the key: no symbol, one or two
KeySyms == {<<>>, <<97>>, <<97, 65>>}

\* WL_KEYBOARD_KEY_STATE_RELEASED and _PRESSED
KeyStates == {0, 1}

\* keyboard_key
KeyboardKey(serial, syms, state_w) ==
    /\ Dispatching
    /\ disp.w_keyboard # NULL
    /\ UNCHANGED <<heard, hook_calls, wnd>>
    /\ disp' = [disp EXCEPT !.last_serial = serial]
    /\ LET call == Called("keyboard_key", <<U32(serial)>>)
           mask == GetEffectiveModmask(disp.xkb_mods)
           sym == IF Len(syms) = 1 THEN syms[1] ELSE XKB_KEY_NoSymbol
       IN  IF disp.xkb_state = NULL \/ disp.keyboard_focus = NULL
           THEN last' = Did("keyboard_key", "", "void", call)
           ELSE \E ws \in Reached(disp.keyboard_focus) :
                    last' = DidW("keyboard_key", disp.keyboard_focus, "void",
                                 call \o WidgetCalls(ws, "keyboard_cb",
                                                     "keyboard_cb",
                                                     <<U32(mask), U32(sym),
                                                       U32(state_w)>>))

-----------------------------------------------------------------------------
(* The specifications *)

Init ==
    /\ disp = InitDisplay
    /\ heard = [l \in Listeners |-> <<>>]
    /\ hook_calls = <<>>
    /\ wnd = [i \in Windows |-> NoWindow]
    /\ last = Did("wlt_display_new", "", "0", <<>>)

NextDisp ==
    \/ \E iface \in Interfaces, id \in GlobalIds, ok \in BOOLEAN :
           DpGlobal(iface, id, ok)
    \/ \E p \in BOOLEAN, k \in BOOLEAN : SeatCapabilities(p, k)
    \/ \E h \in BOOLEAN, r \in BOOLEAN, w \in BOOLEAN : DpEvent(h, r, w)
    \/ \E l \in Listeners : RegisterCb(l)
    \/ \E l \in Listeners : UnregisterCb(l)

SpecDisp == Init /\ [][NextDisp]_vars

\* a server that advertises each global once, and a seat with both devices
Announce ==
    \/ \E iface \in Recognized :
           Bound(disp, iface) = NULL /\ DpGlobal(iface, 1, TRUE)
    \/ disp.w_pointer = NULL /\ SeatCapabilities(TRUE, TRUE)

\* the transport hangs up
Hangup == DpEvent(TRUE, FALSE, FALSE)

\* the buffer and the frame scheduler of the windows of a connection that stays
\* up; the application asks for a window while it holds fewer than MaxWindows
Next ==
    \/ Announce
    \/ \E s \in SmallSizes, f \in CreateFailures :
           FreeSlots # {} /\ CreateWindow(s[1], s[2], f)
    \/ \E i \in Windows, s \in SmallSizes : WindowSetSize(i, s[1], s[2])
    \/ \E i \in Windows, e \in EdgeSets, s \in ConfigSizes :
           ShellSurfaceConfigure(i, e, s[1], s[2])
    \/ \E i \in Windows : WindowScheduleRedraw(i)
    \/ \E i \in Windows, k \in WidgetKinds :
           Len(wnd[i].widgets) < MaxFrameWidgets /\ CreateWidget(i, k)
    \/ \E i \in Windows, f \in ResizeFailures, a \in BOOLEAN : IdleFrame(i, f, a)
    \/ \E i \in Windows, f \in ResizeFailures, a \in BOOLEAN :
           FrameCallback(i, f, a)

Spec == Init /\ [][Next]_vars

\* the pools of a window from its creation over its resizes to its destruction
NextPool ==
    \/ Announce
    \/ \E s \in SmallSizes, f \in ResizeFailures :
           FreeSlots # {} /\ CreateWindow(s[1], s[2], f)
    \/ \E i \in Windows, s \in SmallSizes : WindowSetSize(i, s[1], s[2])
    \/ \E i \in Windows :
           Len(wnd[i].widgets) < MaxFrameWidgets /\ CreateWidget(i, "draw")
    \/ \E i \in Windows, f \in ResizeFailures : IdleFrame(i, f, FALSE)
    \/ \E i \in Windows, f \in ResizeFailures : FrameCallback(i, f, FALSE)
    \/ \E i \in Windows : WindowUnref(i)

SpecPool == Init /\ [][NextPool]_vars

\* the views wlt_window_get_buffer gives of the buffers of new windows
NextBuf ==
    \/ Announce
    \/ Hangup
    \/ \E w \in Widths, h \in Heights : CreateWindow(w, h, "none")
    \/ \E i \in Windows, r \in Rects : WindowGetBuffer(i, r)

SpecBuf == Init /\ [][NextBuf]_vars

\* the sizes of the windows whose life is followed: a width of zero, a height
\* of zero and one pixel
LifeSizes == {<<U32(0), U32(1)>>, <<U32(1), U32(0)>>, <<U32(1), U32(1)>>}

\* the life of a window: its creation, its references, its frame requests and
\* the deferred close
NextLife ==
    \/ Announce
    \/ Hangup
    \/ \E s \in LifeSizes, f \in CreateFailures :
           CreateWindow(s[1], s[2], f)
    \/ \E i \in Windows : WindowSetCloseCb(i)
    \/ \E i \in Windows : WindowClose(i)
    \/ \E i \in Windows : CloseWindow(i)
    \/ \E i \in Windows : WindowScheduleRedraw(i)
    \/ \E i \in Windows : WindowRef(i)
    \/ \E i \in Windows : WindowUnref(i)

SpecLife == Init /\ [][NextLife]_vars

\* the destruction of windows with widgets, before and after a hangup
NextDestroy ==
    \/ Announce
    \/ Hangup
    \/ \E f \in {"none", "buffer"} : CreateWindow(U32(1), U32(1), f)
    \/ \E i \in Windows, k \in InputKinds : CreateWidget(i, k)
    \/ \E i \in Windows : WindowRef(i)
    \/ \E i \in Windows : WindowUnref(i)

SpecDestroy == Init /\ [][NextDestroy]_vars

\* the pointer over the windows of a connection that stays up
NextPtr ==
    \/ Announce
    \/ CreateWindow(U32(1), U32(1), "none")
    \/ \E i \in Windows, k \in InputKinds : CreateWidget(i, k)
    \/ \E n \in Serials, sf \in Surfaces, x \in FixedPos, y \in FixedPos :
           PointerEnter(n, sf, x, y)
    \/ \E n \in Serials : PointerLeave(n)

SpecPtr == Init /\ [][NextPtr]_vars

\* the cursor of the pointer as it enters and leaves the windows
NextCursor ==
    \/ Announce
    \/ CreateWindow(U32(1), U32(1), "none")
    \/ \E n \in Serials, sf \in Surfaces : PointerEnter(n, sf, 0, 0)
    \/ \E n \in Serials : PointerLeave(n)
    \/ \E i \in Windows, c \in Cursors, im \in CursorImages :
           WindowSetCursor(i, c, im)

SpecCursor == Init /\ [][NextCursor]_vars

NextRedraw ==
    \/ Announce
    \/ CreateWindow(U32(1), U32(1), "none")
    \/ \E i \in Windows, k \in InputKinds : CreateWidget(i, k)
    \/ \E i \in Windows, wh \in SmallSizes : WindowSetSize(i, wh[1], wh[2])
    \/ \E i \in Windows : WindowScheduleRedraw(i)
    \/ \E i \in Windows, a \in BOOLEAN : IdleFrame(i, "none", a)
    \/ \E i \in Windows, a \in BOOLEAN : FrameCallback(i, "none", a)
    \/ \E i \in Windows : WindowDamage(i)

SpecRedraw == Init /\ [][NextRedraw]_vars

\* the focus of the pointer and of the keyboard while windows come and go
NextFocus ==
    \/ Announce
    \/ CreateWindow(U32(1), U32(1), "none")
    \/ \E i \in Windows : CreateWidget(i, "draw")
    \/ \E i \in Windows : WindowUnref(i)
    \/ \E n \in Serials, sf \in Surfaces : PointerEnter(n, sf, 0, 0)
    \/ \E n \in Serials : PointerLeave(n)
    \/ \E x \in FixedPos : PointerMotion(x, 0)
    \/ \E n \in Serials, st \in KeyStates : PointerButton(n, st)
    \/ KeyboardKeymap("ok")
    \/ \E n \in Serials, sf \in Surfaces : KeyboardEnter(n, sf)
    \/ \E n \in Serials : KeyboardLeave(n)
    \/ \E n \in Serials, st \in KeyStates : KeyboardKey(n, <<97>>, st)

SpecFocus == Init /\ [][NextFocus]_vars

\* redraw requests, size requests and the frames that serve them; every idle
\* callback the event loop holds and every frame request the server holds is
\* answered in the end
NextFair ==
    \/ Announce
    \/ CreateWindow(U32(1), U32(1), "none")
    \/ \E i \in Windows : CreateWidget(i, "draw")
    \/ \E i \in Windows : WindowScheduleRedraw(i)
    \/ \E i \in Windows, wh \in SmallSizes : WindowSetSize(i, wh[1], wh[2])
    \/ \E i \in Windows, f \in ResizeFailures : IdleFrame(i, f, FALSE)
    \/ \E i \in Windows, f \in ResizeFailures : FrameCallback(i, f, FALSE)

SpecFair ==
    /\ Init
    /\ [][NextFair]_vars
    /\ WF_vars(\E i \in Windows, f \in ResizeFailures : IdleFrame(i, f, FALSE))
    /\ WF_vars(\E i \in Windows, f \in ResizeFailures :
                   FrameCallback(i, f, FALSE))

\* the modifiers a server reports as depressed, as latched and as locked
Depressed == SUBSET {"Shift", "Control", "Mod4"}

Latched == {{}, {"Mod1"}}

Locked == {{}, {"Lock"}}

\* the keyboard over the windows of a connection that stays up
NextKeys ==
    \/ Announce
    \/ CreateWindow(U32(1), U32(1), "none")
    \/ \E i \in Windows, k \in InputKinds : CreateWidget(i, k)
    \/ \E o \in KeymapOutcomes : KeyboardKeymap(o)
    \/ \E n \in Serials, sf \in Surfaces : KeyboardEnter(n, sf)
    \/ \E n \in Serials : KeyboardLeave(n)
    \/ \E n \in Serials, d \in Depressed, t \in Latched, l \in Locked :
           KeyboardModifiers(n, d, t, l)
    \/ \E n \in Serials, sy \in KeySyms, st \in KeyStates :
           KeyboardKey(n, sy, st)

SpecKeys == Init /\ [][NextKeys]_vars

\* the resizes of windows over the whole range of widths, with every
\* allocation succeeding and with widgets that round down
NextBig ==
    \/ Announce
    \/ \E w \in Widths, h \in Heights :
           FreeSlots # {} /\ CreateWindow(w, h, "none")
    \/ \E i \in Windows, w \in Widths, h \in Heights : WindowSetSize(i, w, h)
    \/ \E i \in Windows :
           Len(wnd[i].widgets) < MaxFrameWidgets /\ CreateWidget(i, "cells")
    \/ \E i \in Windows : IdleFrame(i, "none", FALSE)
    \/ \E i \in Windows : FrameCallback(i, "none", FALSE)

SpecBig == Init /\ [][NextBig]_vars

-----------------------------------------------------------------------------
(* The readiness state machine: C1 .. C4, under SpecDisp *)

Range(s) == {s[i] : i \in 1..Len(s)}

SixReady ==
    /\ disp.w_comp # NULL
    /\ disp.w_seat # NULL
    /\ disp.w_shell # NULL
    /\ disp.w_shm # NULL
    /\ disp.w_pointer # NULL
    /\ disp.w_keyboard # NULL

\* C1: in whatever order the four globals and the two seat devices arrive, the
\* state is RUNNING only when all six are present, and, unless a hangup was
\* processed, it is RUNNING as soon as the handler that supplied the last one
\* has returned.
C1_RunningIffAllSix ==
    /\ disp.state = STATE_RUNNING => SixReady
    /\ (SixReady /\ disp.state # STATE_HUP) => disp.state = STATE_RUNNING
    /\ (~SixReady /\ disp.state # STATE_HUP) => disp.state = STATE_INIT

\* the last condition to arrive was a global, after both seat devices
C1_Witness ==
    /\ disp.state = STATE_RUNNING
    /\ last.op = "dp_global"
    /\ last.arg = "wl_shm"
    /\ Ev("hook_call", <<>>) \in Range(last.log)

C2_Counts ==
    /\ Count(hook_calls, "READY") <= 1
    /\ disp.state = STATE_RUNNING => Count(hook_calls, "READY") = 1
    /\ disp.state = STATE_INIT => Count(hook_calls, "READY") = 0
    /\ \A l \in Listeners : Count(heard[l], "READY") <= 1

C2_Step ==
    /\ (disp.state # STATE_RUNNING /\ disp'.state = STATE_RUNNING)
         => /\ disp.state = STATE_INIT
            /\ hook_calls' = Append(hook_calls, "READY")
            /\ \A l \in Listeners :
                   heard'[l] = IF l \in disp.listeners
                               THEN Append(heard[l], "READY") ELSE heard[l]
    /\ Count(hook_calls', "READY") > Count(hook_calls, "READY")
         => (disp.state = STATE_INIT /\ disp'.state = STATE_RUNNING)

\* C2: the step from INIT to RUNNING is taken at most once, READY is handed to
\* the listener hook exactly once for a connection that reaches RUNNING (each
\* listener registered at that moment receives it once), and no later
\* capability event or advertisement hands it out again.
C2_ReadyExactlyOnce == []C2_Counts /\ [][C2_Step]_vars

\* a capability event after RUNNING, whose readiness check broadcast nothing
C2_Witness ==
    /\ disp.state = STATE_RUNNING
    /\ last.op = "seat_capabilities"
    /\ Ev("hook_call", <<>>) \notin Range(last.log)
    /\ \E l \in Listeners : heard[l] = <<"READY">>

C3_Counts ==
    /\ disp.state = STATE_HUP => (Count(hook_calls, "HUP") = 1 /\ ~disp.dp_fd)
    /\ disp.state # STATE_HUP => Count(hook_calls, "HUP") = 0
    /\ \A l \in Listeners : Count(heard[l], "HUP") <= 1

C3_Step ==
    disp.state = STATE_HUP
      => /\ disp'.state = STATE_HUP
         /\ ~disp'.dp_fd
         /\ hook_calls' = hook_calls
         /\ heard' = heard
         /\ last'.op # "dp_event"
         /\ Ev("wl_display_iterate", <<>>) \notin Range(last'.log)

\* C3: once dp_event has processed a hangup or error the state is HUP for good,
\* neither READY nor a second HUP is broadcast, the fd registration is gone and
\* no transport event is processed any more.
C3_HupTerminal == []C3_Counts /\ [][C3_Step]_vars

\* a hangup taken in INIT, with the application going on afterwards
C3_Witness ==
    /\ disp.state = STATE_HUP
    /\ ~SixReady
    /\ hook_calls = <<"HUP">>
    /\ last.op = "register_cb"

C4_Step ==
    (last'.op = "dp_global"
       /\ (last'.arg \notin Recognized \/ Bound(disp, last'.arg) # NULL))
      => /\ disp' = disp
         /\ heard' = heard
         /\ hook_calls' = hook_calls
         /\ Ev("check_ready", <<>>) \notin Range(last'.log)

\* C4: an advertisement of a global that is already bound, or of an interface
\* the toolkit does not know, leaves the bound objects, the state and the
\* notifications as they were and does not run the readiness check.
C4_DuplicateGlobalIgnored == [][C4_Step]_vars

\* the seat advertised a second time
C4_Witness ==
    /\ last.op = "dp_global"
    /\ last.arg = "wl_seat"
    /\ last.log = <<Ev("advertised twice", <<>>)>>
    /\ disp.w_seat # NULL

-----------------------------------------------------------------------------
(* Window creation: C5, under SpecLife *)

\* the arguments of the call that `l` records
Args(l) == l.log[1].a

\* the events named `name` in the log of `l`, in order
Events(l, name) == SelectSeq(l.log, LAMBDA ev : ev.e = name)

Logged(l, name) == \E k \in 1..Len(l.log) : l.log[k].e = name

C5_StateError ==
    (last'.op = "create_window" /\ disp.state # STATE_RUNNING
       /\ ~IsZero(Args(last')[1]) /\ ~IsZero(Args(last')[2]))
      => last'.ret = "-EBUSY"

C5_ZeroSize ==
    (last'.op = "create_window"
       /\ (IsZero(Args(last')[1]) \/ IsZero(Args(last')[2])))
      => last'.ret = "-EINVAL"

C5_StateErrorAlways ==
    (last'.op = "create_window" /\ disp.state # STATE_RUNNING)
      => last'.ret = "-EBUSY"

C5_Failure ==
    (last'.op = "create_window" /\ last'.ret # "0")
      => (disp' = disp /\ wnd' = wnd)

C5_Success ==
    (last'.op = "create_window" /\ last'.ret = "0")
      => /\ disp.state = STATE_RUNNING
         /\ disp'.ref = disp.ref + 1
         /\ last'.wnd \notin Range(disp.window_list)
         /\ disp'.window_list = <<last'.wnd>> \o disp.window_list
         /\ wnd[last'.wnd].st = "none"
         /\ wnd'[last'.wnd].st = "live"
         /\ \A j \in Windows \ {last'.wnd} : wnd'[j] = wnd[j]

\* C5, with the order of the two tests of the code: create_window with a
\* non-zero width and height is rejected with -EBUSY whenever the state is not
\* RUNNING, and with a zero width or height it is rejected with -EINVAL in
\* every state; a creation that fails changes neither the window list nor the
\* reference count nor any window; a creation that succeeds happens in RUNNING,
\* links exactly one new window and takes exactly one reference.
C5_CreateWindowChecked ==
    [][C5_StateError /\ C5_ZeroSize /\ C5_Failure /\ C5_Success]_vars

\* C5 as stated: create_window is rejected with the state error whenever the
\* state is not RUNNING, whatever its arguments; a failed creation changes
\* nothing and a successful one links one window and takes one reference.
C5_AsStated == [][C5_StateErrorAlways /\ C5_Failure /\ C5_Success]_vars

\* a creation rejected after the hangup, with valid arguments
C5_Witness ==
    /\ last.op = "create_window"
    /\ last.ret = "-EBUSY"
    /\ disp.state = STATE_HUP
    /\ disp.ref = 1
    /\ disp.window_list = <<>>

-----------------------------------------------------------------------------
(* Size requests and do_frame: C6 and C7, under Spec *)

DoFrameOps == {"idle_frame", "frame_callback"}

SizeOps == {"set_size", "shell_surface_configure"}

\* an accepted size request makes its size the target
C6_Request ==
    (last'.op \in SizeOps /\ last'.ret # "-EINVAL")
      => /\ wnd'[last'.wnd].need_resize
         /\ wnd'[last'.wnd].new_width = Args(last')[1]
         /\ wnd'[last'.wnd].new_height = Args(last')[2]

\* nothing but an accepted size request and do_frame touches the target
C6_Keep ==
    \A i \in Windows :
        (wnd[i].need_resize
           /\ ~(last'.wnd = i /\ last'.op \in DoFrameOps)
           /\ ~(last'.wnd = i /\ last'.op \in SizeOps /\ last'.ret # "-EINVAL"))
          => /\ wnd'[i].need_resize
             /\ wnd'[i].new_width = wnd[i].new_width
             /\ wnd'[i].new_height = wnd[i].new_height

\* do_frame runs resize_window once, with the target, if a resize is pending,
\* and not at all if none is
C6_DoFrame ==
    last'.op \in DoFrameOps
      => LET w == wnd[last'.wnd]
             w2 == wnd'[last'.wnd]
         IN  /\ Len(Events(last', "resize_window")) <= 1
             /\ Events(last', "resize_window")
                  = IF w.need_resize
                    THEN <<Ev("resize_window", <<w.new_width, w.new_height>>)>>
                    ELSE <<>>
             /\ ~w2.need_resize
             /\ (Logged(last', "create_buffer")
                   /\ ~Logged(last', "prepare_resize_cb"))
                  => (w2.buffer.width = w.new_width
                        /\ w2.buffer.height = w.new_height)

\* C6: of the size requests made on a window before a do_frame, the size of
\* the last accepted one is the one that do_frame passes to resize_window, and
\* one do_frame (one idle or frame callback) runs resize_window at most once.
C6_LastSizeOncePerFrame == [][C6_Request /\ C6_Keep /\ C6_DoFrame]_vars

\* a do_frame after a size request that replaced a pending one: one resize
C6_Witness ==
    /\ last.op \in DoFrameOps
    /\ Logged(last, "absorbed")
    /\ Len(Events(last, "resize_window")) = 1
    /\ Logged(last, "create_buffer")

C7_Quiet ==
    {"resize_cb", "redraw_cb", "memset", "attach", "damage", "pool_new",
     "create_buffer", "buffer_destroy", "pool_free"}

\* the part of a do_frame's log that precedes its own call of the redraw
ResizePart(l) ==
    IF Logged(l, "do_redraw")
    THEN SubSeq(l.log, 1,
                (CHOOSE k \in 1..Len(l.log) :
                    /\ l.log[k].e = "do_redraw"
                    /\ \A j \in 1..(k - 1) : l.log[j].e # "do_redraw") - 1)
    ELSE l.log

C7_Step ==
    \A i \in Windows :
        (last'.op \in DoFrameOps /\ last'.wnd = i /\ wnd[i].need_resize
           /\ PrepareResize(wnd[i].widgets, 1, wnd[i].new_width,
                            wnd[i].new_height)
                = <<wnd[i].buffer.width, wnd[i].buffer.height>>)
          => /\ \A k \in 1..Len(ResizePart(last')) :
                    ResizePart(last')[k].e \notin C7_Quiet
             /\ wnd'[i].pool = wnd[i].pool
             /\ wnd'[i].w_buffer = wnd[i].w_buffer
             /\ wnd'[i].buffer = wnd[i].buffer
             /\ ~Logged(last', "do_redraw")
                  => wnd'[i].buffer_attached = wnd[i].buffer_attached

\* C7: when resize_window runs with a target that, after the prepare_resize
\* callbacks, equals the committed size, it leaves the buffer handle, the pool,
\* the buffer view and buffer_attached as they are, allocates and frees nothing
\* and invokes no resize and no redraw callback.
C7_SameSizeNoOp == [][C7_Step]_vars

\* a request of 1x1 that a grid widget rounds up to the committed 2x2
C7_Witness ==
    /\ last.op \in DoFrameOps
    /\ Ev("resize_window", <<U32(1), U32(1)>>) \in Range(last.log)
    /\ Logged(last, "prepare_resize_cb")
    /\ ~Logged(last, "create_buffer")
    /\ ~Logged(last, "cannot create buffer")
    /\ ~Logged(last, "cannot create pool")
    /\ wnd[last.wnd].buffer.width = U32(2)
    /\ wnd[last.wnd].buffer.height = U32(2)

-----------------------------------------------------------------------------
(* wlt_window_get_buffer: C8 and C9, under SpecBuf *)

UMin(a, b) == IF Lt(a, b) THEN a ELSE b

\* C8: for every rectangle {x, y, w, h} and committed buffer W x H, get_buffer
\* returns the all-zero buffer if x >= W or y >= H, and otherwise a width of
\* min(w, W - x) and a height of min(h, H - y), so that x + width <= W and
\* y + height <= H.
C8_Clipped ==
    (last.op = "get_buffer" /\ Args(last) # NoRect)
      => LET r == Args(last)
             b == last.log[2].a
             W == wnd[last.wnd].buffer.width
             H == wnd[last.wnd].buffer.height
         IN  IF ~Lt(r[1], W) \/ ~Lt(r[2], H)
             THEN b = <<U32(0), U32(0), U32(0), U32(0), Pad(<<>>, 4)>>
             ELSE /\ b[1] = UMin(r[3], USub(W, r[1]))
                  /\ b[2] = UMin(r[4], USub(H, r[2]))
                  /\ Le(XAdd(r[1], b[1]), W)
                  /\ Le(XAdd(r[2], b[2]), H)

\* C9: for every rectangle with x < W and y < H get_buffer returns the
\* committed stride and the data offset y * stride + x * 4 from the base of the
\* committed buffer, and the committed stride of every window is 4 times its
\* committed width.
C9_OffsetLaw ==
    /\ \A i \in Windows :
           Live(i) => Eq(wnd[i].buffer.stride,
                         XMul(U32(4), wnd[i].buffer.width))
    /\ (last.op = "get_buffer" /\ Args(last) # NoRect
          /\ Lt(Args(last)[1], wnd[last.wnd].buffer.width)
          /\ Lt(Args(last)[2], wnd[last.wnd].buffer.height))
         => LET r == Args(last)
                b == last.log[2].a
                rbuf == wnd[last.wnd].buffer
            IN  /\ b[3] = rbuf.stride
                /\ b[4] = U32(rbuf.data.pool)
                /\ Eq(b[5], XAdd(XAdd(rbuf.data.off, XMul(r[2], rbuf.stride)),
                                 XMul(r[1], U32(4))))

-----------------------------------------------------------------------------
(* The deferred close: C10, under SpecLife *)

C10_Step ==
    /\ last'.op = "close" => ~Logged(last', "close_cb")
    /\ (last'.op = "close_window" /\ Logged(last', "close_cb"))
         => wnd[last'.wnd].close_pending

\* C10: close does not invoke the close callback itself, and however often
\* close was called before the deferred close_window ran, the callback is
\* invoked once: a run of close_window that no call of close has preceded since
\* the previous run does not invoke it again.
C10_CloseOnce == [][C10_Step]_vars

-----------------------------------------------------------------------------
(* The destruction of a window and its widgets: C11, under SpecDestroy *)

\* what wlt_window_unref releases once the widgets are gone
C11_Releases == {"buffer_destroy", "pool_free", "surface_destroy", "free"}

C11_Step ==
    last'.op = "window_unref"
      => LET i == last'.wnd
             n == Len(wnd[i].widgets)
             log == last'.log
         IN  IF wnd[i].ref > 1
             THEN /\ log = <<>>
                  /\ wnd' = [wnd EXCEPT ![i].ref = @ - 1]
                  /\ disp' = disp
             ELSE /\ wnd'[i].st = "freed"
                  /\ Len(log) > n
                  /\ \A k \in 1..n : log[k] = Ev("destroy_cb", <<U32(k)>>)
                  /\ \A k \in (n + 1)..Len(log) : log[k].e \in C11_Releases
                  /\ log[Len(log)].e = "free"

\* C11: the wlt_window_unref that drops the last reference of a window with N
\* widgets calls the destroy callback of each widget once, in the order of
\* their creation, before it releases the buffer, the pool, the surface and
\* the window; a wlt_window_unref that leaves a reference calls no callback
\* and changes nothing but the count.
C11_DestroyOrder == [][C11_Step]_vars

\* a window with two widgets was destroyed
C11_Witness ==
    /\ last.op = "window_unref"
    /\ wnd[last.wnd].st = "freed"
    /\ Len(Events(last, "destroy_cb")) = MaxWidgets

-----------------------------------------------------------------------------
(* The pointer over a surface of no window: C12, under SpecPtr *)

C12_Step ==
    (last'.op = "pointer_enter" /\ Lookup(disp, Args(last')[2][1]) = NULL)
      => /\ disp'.pointer_focus = disp.pointer_focus
         /\ disp'.pointer_enter_serial = disp.pointer_enter_serial
         /\ disp'.last_serial = disp.last_serial
         /\ ~Logged(last', "pointer_enter_cb")
         /\ \A k \in 2..Len(last'.log) : last'.log[k].e = "unknown surface"
         /\ wnd' = wnd

\* C12: a pointer-enter for a surface that no window of the window list owns
\* is dropped: the pointer focus, the enter serial and the last serial keep
\* their values and no callback of any widget is called.
C12_UnknownSurfaceDropped == [][C12_Step]_vars

\* the pointer was over a window with an input widget, at another serial, when
\* the enter for the foreign surface came
C12_Witness ==
    /\ last.op = "pointer_enter"
    /\ Logged(last, "unknown surface")
    /\ disp.pointer_focus # NULL
    /\ \E k \in 1..Len(wnd[disp.pointer_focus].widgets) :
           wnd[disp.pointer_focus].widgets[k].pointer_enter_cb
    /\ U32(disp.last_serial) # Args(last)[1]

-----------------------------------------------------------------------------
(* The buffer and the pool a serviced resize commits: C13, under SpecBig *)

XMax(a, b) == IF Lt(a, b) THEN b ELSE a

C13_Step ==
    (last'.op \in DoFrameOps /\ wnd[last'.wnd].need_resize
       /\ wnd[last'.wnd].widgets = <<>>
       /\ ~Logged(last', "cannot create pool")
       /\ ~Logged(last', "cannot create buffer"))
      => LET w == wnd[last'.wnd]
             v == wnd'[last'.wnd]
             need == XMul(XMul(w.new_width, w.new_height), U32(4))
         IN  /\ v.buffer.width = w.new_width
             /\ v.buffer.height = w.new_height
             /\ Eq(v.buffer.stride, XMul(U32(4), w.new_width))
             /\ Eq(v.pool.size, XMax(w.pool.size, need))
             /\ IF Le(need, w.pool.size)
                THEN v.pool = w.pool
                ELSE v.pool.id # w.pool.id /\ Eq(v.pool.size, need)

\* C13: the do_frame that services set_size(w, h) on a window without widgets,
\* every allocation succeeding, commits the buffer {w, h, stride 4 * w}; the
\* pool is kept when its size is at least w * h * 4 and is otherwise replaced
\* by one of exactly w * h * 4 bytes, so that the pool size is the maximum of
\* the previous size and w * h * 4.
C13_CommittedSize == [][C13_Step]_vars

-----------------------------------------------------------------------------
(* The modifier mask of a key event: C14, under SpecKeys *)

\* bit b, a power of two, is set in m
Bit(m, b) == (m \div b) % 2 = 1

\* the masks a key event delivered to the widgets
C14_Masks ==
    IF last.op = "keyboard_key"
    THEN {ev.a[2][1] : ev \in Range(Events(last, "keyboard_cb"))}
    ELSE {}

C14_Bits ==
    <<<<"Shift", TSM_SHIFT_MASK>>, <<"Lock", TSM_LOCK_MASK>>,
      <<"Control", TSM_CONTROL_MASK>>, <<"Mod1", TSM_MOD1_MASK>>,
      <<"Mod4", TSM_MOD4_MASK>>>>

RECURSIVE C14_Sum(_, _)
C14_Sum(active, k) ==
    IF k = 0 THEN 0
    ELSE (IF C14_Bits[k][1] \in active THEN C14_Bits[k][2] ELSE 0)
           + C14_Sum(active, k - 1)

\* C14: the mask a key event delivers has each of the five bits (Shift,
\* Caps-Lock, Control, Alt, Logo) set exactly when its modifier is effective
\* and no other bit; with Shift and Control effective both bits are set
\* whatever Caps-Lock, Alt and Logo are, and the mask is the Shift bit OR the
\* Control bit when none of these three is effective.
C14_ModMask ==
    \A m \in C14_Masks :
        /\ \A k \in 1..5 : Bit(m, C14_Bits[k][2]) <=> C14_Bits[k][1] \in disp.xkb_mods
        /\ m = C14_Sum(disp.xkb_mods, 5)
        /\ {"Shift", "Control"} \subseteq disp.xkb_mods
             => Bit(m, TSM_SHIFT_MASK) /\ Bit(m, TSM_CONTROL_MASK)
        /\ disp.xkb_mods = {"Shift", "Control"}
             => m = BitOr(TSM_SHIFT_MASK, TSM_CONTROL_MASK)

\* the mask with Shift and Control effective is the Shift bit OR the Control
\* bit, whatever Caps-Lock, Alt and Logo are
C14_AsStated ==
    \A m \in C14_Masks :
        {"Shift", "Control"} \subseteq disp.xkb_mods
          => m = BitOr(TSM_SHIFT_MASK, TSM_CONTROL_MASK)

\* a key event with Shift, Control and Logo effective reached a widget
C14_Witness ==
    /\ disp.xkb_mods = {"Shift", "Control", "Mod4"}
    /\ C14_Masks = {TSM_SHIFT_MASK + TSM_CONTROL_MASK + TSM_MOD4_MASK}

-----------------------------------------------------------------------------
(* The outstanding frame requests of a window: C15, under Spec *)

\* the callbacks that will run do_frame for window i: the entries of the idle
\* hook for idle_frame and the wl_callback of wl_surface_frame
Outstanding(i) == wnd[i].idle_regs + wnd[i].frame_cbs

\* C15: a live window has at most one outstanding frame request, a registered
\* idle_frame and a pending frame callback each counting as one; neither is
\* registered twice, and w_frame is set exactly while its callback is pending.
C15_OneRequest ==
    \A i \in Windows :
        Live(i) => /\ Outstanding(i) <= 1
                   /\ wnd[i].idle_regs <= 1
                   /\ wnd[i].frame_cbs <= 1
                   /\ wnd[i].w_frame <=> wnd[i].frame_cbs = 1

-----------------------------------------------------------------------------
(* The committed size is never zero: C16, under SpecBig *)

C16_Positive ==
    \A i \in Windows :
        wnd'[i].st = "live" => /\ ~IsZero(wnd'[i].buffer.width)
                               /\ ~IsZero(wnd'[i].buffer.height)

C16_Rejected ==
    (last'.op \in {"set_size", "create_window"}
       /\ (IsZero(Args(last')[1]) \/ IsZero(Args(last')[2])))
      => /\ last'.ret = "-EINVAL"
         /\ wnd' = wnd
         /\ disp' = disp

\* C16: whatever set_size, configure, prepare_resize_cb and do_frame did, the
\* committed width and height of a live window are greater than 0, and
\* set_size and create_window with a width or a height of 0 are rejected and
\* change nothing.
C16_NeverZero == [][C16_Positive /\ C16_Rejected]_vars

-----------------------------------------------------------------------------
(* A resize that fails: C17, under Spec *)

C17_Failed(l) == Logged(l, "cannot create pool") \/ Logged(l, "cannot create buffer")

\* the pools the log of l allocates, and those it frees
C17_New(l) == Events(l, "pool_new")

C17_Freed(l) == Events(l, "pool_free")

C17_Step ==
    /\ (last'.op \in DoFrameOps /\ C17_Failed(last'))
         => LET w == wnd[last'.wnd]
                v == wnd'[last'.wnd]
            IN  /\ v.w_buffer = w.w_buffer
                /\ v.pool = w.pool
                /\ v.buffer = w.buffer
                /\ v.buffer_attached = w.buffer_attached
                /\ \A k \in 1..Len(last'.log) :
                       last'.log[k].e \notin {"resize_cb", "redraw_cb",
                                              "buffer_destroy"}
                /\ Len(C17_Freed(last')) = Len(C17_New(last'))
                /\ \A k \in 1..Len(C17_Freed(last')) :
                       /\ C17_Freed(last')[k].a[1] = C17_New(last')[k].a[1]
                       /\ C17_Freed(last')[k].a[1] # U32(w.pool.id)
    /\ (last'.op = "create_window" /\ C17_Failed(last'))
         => /\ last'.ret \in {"-EFAULT", "-ENOMEM"}
            /\ wnd' = wnd
            /\ disp' = disp
            /\ Len(C17_Freed(last')) = Len(C17_New(last'))

\* C17: when the allocation of the pool or the creation of the buffer fails in
\* a resize, the resize fails and the committed state is as before: the same
\* buffer handle, the same pool, not freed, the same buffer view and
\* buffer_attached; no resize or redraw callback of a widget ran, and a pool
\* that was allocated for the resize is freed once.
C17_FailedResizeIntact == [][C17_Step]_vars

\* the buffer could not be created in a new pool, for a window with a widget
C17_Witness ==
    /\ last.op \in DoFrameOps
    /\ Logged(last, "cannot create buffer")
    /\ Len(C17_New(last)) = 1
    /\ wnd[last.wnd].widgets # <<>>
    /\ wnd[last.wnd].pool.id # 0

-----------------------------------------------------------------------------
(* The registrations a destroyed window leaves: C18, under SpecLife *)

\* C18: once a window is destroyed, no callback registered for it is pending:
\* no idle_frame and no close_window in the idle hook and no frame callback,
\* however often schedule_redraw and close were called before.
C18_NothingPending ==
    \A i \in Windows :
        wnd[i].st = "freed" => /\ wnd[i].idle_regs = 0
                               /\ wnd[i].frame_cbs = 0
                               /\ wnd[i].close_regs = 0

-----------------------------------------------------------------------------
(* The branches of do_frame: C19 and C20, under Spec *)

\* the calls of the redraw callback of widget k in the log of l
C19_Redraws(l, k) ==
    Cardinality({j \in 1..Len(l.log) :
                    l.log[j].e = "redraw_cb" /\ l.log[j].a[1] = U32(k)})

C19_Step ==
    last'.op \in DoFrameOps
      => /\ ~(Logged(last', "resize_window") /\ Logged(last', "do_redraw"))
         /\ \A k \in 1..MaxWidgets : C19_Redraws(last', k) <= 1

\* C19: one run of do_frame takes one branch, the resize or else the redraw,
\* so that the redraw callback of a widget is called at most once in it,
\* whatever the callbacks ask for.
C19_OneBranch == [][C19_Step]_vars

\* the place of the first event `name` in the log of l
FirstAt(l, name) ==
    CHOOSE k \in 1..Len(l.log) :
        /\ l.log[k].e = name
        /\ \A j \in 1..(k - 1) : l.log[j].e # name

C20_Step ==
    (last'.op \in DoFrameOps /\ Logged(last', "schedule_redraw"))
      => /\ \A j \in (FirstAt(last', "schedule_redraw") + 1)..Len(last'.log) :
                last'.log[j].e \notin {"do_redraw", "redraw_cb", "resize_cb"}
         /\ wnd'[last'.wnd].need_redraw
         /\ wnd'[last'.wnd].idle_regs + wnd'[last'.wnd].frame_cbs > 0

\* C20: a redraw that a widget callback requests while do_frame runs is not
\* executed inside that do_frame, and it is not lost: when the do_frame
\* returns the request is pending and a callback that will run do_frame is
\* registered.
C20_Deferred == [][C20_Step]_vars

-----------------------------------------------------------------------------
(* The life of the pools: C21, under SpecPool *)

\* the pools a handler allocated and the pools it freed, by name
C21_New(l) == {ev.a[1] : ev \in Range(Events(l, "pool_new"))}

C21_Freed(l) == {ev.a[1] : ev \in Range(Events(l, "pool_free"))}

\* the pool the window of handler l held before it ran
C21_Old(l) ==
    IF l.wnd # 0 /\ wnd[l.wnd].st = "live" /\ wnd[l.wnd].pool.id # 0
    THEN {U32(wnd[l.wnd].pool.id)} ELSE {}

C21_Step ==
    LET l == last'
        i == l.wnd
        kept == (C21_Old(l) \cup C21_New(l)) \ C21_Freed(l)
    IN  /\ Len(Events(l, "pool_free")) = Cardinality(C21_Freed(l))
        /\ Len(Events(l, "pool_new")) = Cardinality(C21_New(l))
        /\ C21_Freed(l) \subseteq C21_Old(l) \cup C21_New(l)
        /\ kept = IF i # 0 /\ wnd'[i].st = "live"
                  THEN {U32(wnd'[i].pool.id)} ELSE {}
        /\ (l.op \in DoFrameOps /\ Logged(l, "create_buffer"))
             => \A k \in 1..Len(l.log) :
                    l.log[k].e \in {"buffer_destroy", "pool_free"}
                      => /\ Logged(l, "attach") /\ FirstAt(l, "attach") < k
                         /\ FirstAt(l, "damage") < k
                         /\ \A j \in 1..FirstAt(l, "attach") :
                                l.log[j].e \notin {"buffer_destroy", "pool_free"}
        /\ \A j \in Windows :
               wnd'[j].st = "live"
                 => /\ wnd'[j].pool.id # 0
                    /\ wnd'[j].buffer.data.pool = wnd'[j].pool.id

\* C21: over creations, resizes that succeed or fail and destructions, a pool
\* that was allocated is freed once or is the pool of a live window; a resize
\* destroys the previous buffer and frees a replaced pool only after the
\* redraw into the new buffer, its attachment and its damage; and the buffer
\* view of a live window points into the pool the window holds.
C21_PoolsFreedOnce == [][C21_Step]_vars

\* a do_frame replaced the pool of a window with a widget by a larger one
C21_Witness ==
    /\ last.op \in DoFrameOps
    /\ Logged(last, "pool_new")
    /\ Logged(last, "pool_free")
    /\ Logged(last, "redraw_cb")
    /\ ~Logged(last, "cannot create buffer")

-----------------------------------------------------------------------------
(* The pointer leaves: C22, under SpecPtr *)

\* the widgets of ws that have a pointer_leave_cb, in list order
C22_Leavers(ws) ==
    LET Has(w) == w.pointer_leave_cb
        sel == SelectSeq(ws, Has)
    IN  [k \in 1..Len(sel) |-> U32(sel[k].id)]

\* the widgets a handler called pointer_leave_cb of, in the order of the calls
C22_Left(l) ==
    LET cbs == Events(l, "pointer_leave_cb")
    IN  [k \in 1..Len(cbs) |-> cbs[k].a[1]]

C22_Callbacks ==
    (last'.op = "pointer_leave")
      => /\ disp'.pointer_focus = NULL
         /\ C22_Left(last') =
              IF disp.pointer_focus = NULL THEN <<>>
              ELSE C22_Leavers(wnd[disp.pointer_focus].widgets)
         /\ wnd' = wnd

C22_Step ==
    /\ C22_Callbacks
    /\ (last'.op = "pointer_leave" /\ disp.pointer_focus = NULL)
         => \E s \in Serials :
                /\ Args(last') = <<U32(s)>>
                /\ disp' = [disp EXCEPT !.last_serial = s]

\* C22: a pointer-leave calls the pointer_leave_cb of every widget of the
\* window that had the pointer focus once, in list order, and leaves the focus
\* empty; without a focused window it calls no callback and changes no field
\* of the connection but last_serial, which takes the serial of the event.
C22_LeaveDispatch == [][C22_Step]_vars

\* a pointer-leave reached two widgets of the focused window
C22_Witness ==
    /\ last.op = "pointer_leave"
    /\ last.wnd # 0
    /\ Len(Events(last, "pointer_leave_cb")) = 2
    /\ disp.pointer_focus = NULL

C22_Quiet ==
    /\ C22_Callbacks
    /\ (last'.op = "pointer_leave" /\ disp.pointer_focus = NULL)
         => disp' = disp

\* C22 as stated: a pointer-leave without a focused window changes no field
\* of the connection state.
C22_AsStated == [][C22_Quiet]_vars

-----------------------------------------------------------------------------
(* The keyboard without a translation state: C23, under SpecKeys *)

KeyboardOps ==
    {"keyboard_enter", "keyboard_leave", "keyboard_key", "keyboard_modifiers"}

\* no translation state is established: no keymap was received or accepted,
\* or the last xkb_map_new_from_string or xkb_state_new failed
C23_NoState(d) == d.xkb_keymap = NULL \/ d.xkb_state = NULL

C23_Step ==
    /\ (last'.op \in KeyboardOps /\ C23_NoState(disp))
         => /\ \E s \in Serials : disp' = [disp EXCEPT !.last_serial = s]
            /\ ~Logged(last', "keyboard_cb")
    /\ (last'.op = "keyboard_key" /\ ~C23_NoState(disp))
         => /\ Logged(last', "keyboard_cb") => last'.wnd = disp.keyboard_focus
            /\ disp.keyboard_focus = NULL => ~Logged(last', "keyboard_cb")

\* C23: while no translation state is established (no keymap received, a
\* rejected format, or a failed keymap or state creation) keyboard enter,
\* leave, key and modifiers events change last_serial only, set no keyboard
\* focus and call no keyboard_cb; with a translation state a key event calls
\* the widgets of the keyboard-focused window only, and none without a focus.
C23_Gated == [][C23_Step]_vars

-----------------------------------------------------------------------------
(* The cursor after the pointer enters: C24, under SpecCursor *)

\* the pointer entered a window and the next handler is set_cursor
C24_AfterEnter ==
    /\ last.op = "pointer_enter"
    /\ last.wnd # 0
    /\ last'.op = "set_cursor"

C24_Step ==
    C24_AfterEnter
      => /\ Logged(last', "set")
         /\ disp'.cursor_serial = disp.pointer_enter_serial

\* C24: the first set_cursor after a pointer-enter on a known window applies
\* the cursor again, also when the role is the one already applied, whatever
\* serial the server sent with the enter: one equal to the serial of the last
\* application or one below it after a wrap-around.
C24_Reapplied == [][C24_Step]_vars

-----------------------------------------------------------------------------
(* The order of a redraw and skip_damage: C25, under SpecRedraw *)

\* the widgets of ws that have set slot `slot`, in list order, n times over
C25_Having(ws, slot, n) ==
    LET Has(w) == w[slot]
        sel == SelectSeq(ws, Has)
    IN  [k \in 1..(n * Len(sel)) |-> U32(sel[((k - 1) % Len(sel)) + 1].id)]

\* the widgets the callbacks `name` of a handler were called for, in order
C25_CalledFor(l, name) ==
    LET cbs == Events(l, name)
    IN  [k \in 1..Len(cbs) |-> cbs[k].a[1]]

\* the handlers that run wlt_window_do_redraw
C25_Redrawn(l) == Logged(l, "memset")

C25_Step ==
    LET l == last'
        i == l.wnd
        n == Len(Events(l, "memset"))
    IN  /\ C25_Redrawn(l)
          => /\ C25_CalledFor(l, "resize_cb")
                  = C25_Having(wnd[i].widgets, "resize_cb", n)
             /\ C25_CalledFor(l, "redraw_cb")
                  = C25_Having(wnd[i].widgets, "redraw_cb", n)
             /\ \A k \in 1..Len(l.log) :
                    /\ l.log[k].e = "resize_cb"
                         => /\ l.log[k].a =
                                 <<l.log[k].a[1], U32(0), U32(0),
                                   wnd'[i].buffer.width, wnd'[i].buffer.height>>
                            /\ \E m \in (k + 1)..Len(l.log) :
                                   /\ l.log[m].e = "memset"
                                   /\ \A j \in k..m : l.log[j].e # "redraw_cb"
                    /\ l.log[k].e = "redraw_cb"
                         => \E m \in 1..(k - 1) :
                                /\ l.log[m].e = "memset"
                                /\ \A j \in m..k : l.log[j].e # "resize_cb"
                    /\ l.log[k].e = "wlt_window_damage"
                         => (k = Len(l.log) \/ l.log[k + 1] # Ev("damage", WidgetRect))
        /\ l.op = "wlt_window_damage" => l.log = <<Ev("damage", WidgetRect)>>
        /\ \A j \in Windows : wnd'[j].st = "live" => ~wnd'[j].skip_damage

\* C25: a redraw calls the resize_cb of every widget with the rectangle
\* {0, 0, width, height} of the committed buffer before any redraw_cb, calls
\* the redraw_cb in list order, and has skip_damage set while they run: the
\* wlt_window_damage of a widget in its redraw_cb damages nothing, and between
\* the handlers skip_damage is false and wlt_window_damage damages the surface.
C25_RedrawOrder == [][C25_Step]_vars

\* a redraw reached two widgets, each of which called wlt_window_damage
C25_Witness ==
    /\ last.op \in DoFrameOps
    /\ Len(Events(last, "redraw_cb")) = 2
    /\ Len(Events(last, "wlt_window_damage")) = 2
    /\ Len(Events(last, "resize_cb")) = 2

-----------------------------------------------------------------------------
(* The focus and the window list: C26, under SpecFocus *)

\* the windows linked in disp->window_list
C26_Linked == Range(disp.window_list)

\* C26: the pointer focus and the keyboard focus of the connection are each
\* empty or a window linked in the window list of the connection; after the
\* window that holds a focus is destroyed the focus does not name it, and no
\* pointer or key event reaches the widgets of a destroyed window.
C26_FocusLinked ==
    /\ disp.pointer_focus \in {NULL} \cup C26_Linked
    /\ disp.keyboard_focus \in {NULL} \cup C26_Linked
    /\ (last.op \in {"pointer_motion", "pointer_button", "pointer_leave",
                     "keyboard_key"} /\ last.wnd # 0)
         => wnd[last.wnd].st = "live"

-----------------------------------------------------------------------------
(* No redraw request is lost: C27, under SpecFair *)

\* a redraw of window i was asked for: by wlt_window_schedule_redraw or by the
\* creation of a widget
C27_Asked(i) == last.wnd = i /\ last.op \in {"schedule_redraw", "create_widget"}

\* a do_frame of window i ran wlt_window_do_redraw
C27_Served(i) ==
    last.wnd = i /\ last.op \in DoFrameOps /\ Logged(last, "memset")

\* C27: when every idle callback and every frame callback fires in the end, a
\* redraw asked for on a window that is not destroyed is followed by a run of
\* the redraw algorithm for that window, whatever size requests are made
\* before the frame is served and whether or not their resize succeeds.
C27_NoLostRedraw ==
    \A i \in Windows : C27_Asked(i) ~> (C27_Served(i) \/ wnd[i].st # "live")

-----------------------------------------------------------------------------
(* The committed buffer fits in its pool: C28, under SpecBig *)

\* 4 * width * height of the committed buffer of w, on the naturals
C28_Bytes(w) == XMul(XMul(w.buffer.width, w.buffer.height), U32(4))

C28_Step ==
    \A i \in Windows :
        wnd'[i].st = "live"
          => /\ Le(C28_Bytes(wnd'[i]), wnd'[i].pool.size)
             /\ wnd[i].st = "live" => Le(wnd[i].pool.size, wnd'[i].pool.size)

\* C28: the pool of a live window holds at least 4 * width * height bytes of
\* its committed buffer, the product taken on the naturals, for every width
\* and height that create_window, set_size or a configure accept; and no
\* resize makes the pool of a window smaller.
C28_FitsInPool == [][C28_Step]_vars

=============================================================================
